---- MODULE Spec2Model ----
(***************************************************************************)
(* A model of the typed-value tree engine of proton-c/src/codec/codec.c:   *)
(* the primitive byte I/O, the atom codec, the value tree (pn_data_t) and  *)
(* the format interpreter.  Every C function is an operator over a record  *)
(* standing for the object it works on; the actions of the specifications  *)
(* apply these operators to the trees held in the variables.               *)
(*                                                                         *)
(* Payloads are kept as big-endian byte sequences of the width of their    *)
(* kind, so that 32- and 64-bit values keep their width.                   *)
(***************************************************************************)
EXTENDS Integers, Sequences, FiniteSets, TLC

(***************************************************************************)
(* Type codes of the wire format (encodings.h).                            *)
(***************************************************************************)
PNE_DESCRIPTOR == 0
PNE_NULL == 64
PNE_TRUE == 65
PNE_FALSE == 66
PNE_UINT0 == 67
PNE_ULONG0 == 68
PNE_LIST0 == 69
PNE_UBYTE == 80
PNE_BYTE == 81
PNE_SMALLUINT == 82
PNE_SMALLULONG == 83
PNE_SMALLINT == 84
PNE_SMALLLONG == 85
PNE_BOOLEAN == 86
PNE_USHORT == 96
PNE_SHORT == 97
PNE_UINT == 112
PNE_INT == 113
PNE_FLOAT == 114
PNE_UTF32 == 115
PNE_DECIMAL32 == 116
PNE_ULONG == 128
PNE_LONG == 129
PNE_DOUBLE == 130
PNE_MS64 == 131
PNE_DECIMAL64 == 132
PNE_DECIMAL128 == 148
PNE_UUID == 152
PNE_VBIN8 == 160
PNE_STR8_UTF8 == 161
PNE_SYM8 == 163
PNE_VBIN32 == 176
PNE_STR32_UTF8 == 177
PNE_SYM32 == 179
PNE_LIST8 == 192
PNE_MAP8 == 193
PNE_LIST32 == 208
PNE_MAP32 == 209
PNE_ARRAY8 == 224
PNE_ARRAY32 == 240

(***************************************************************************)
(* Kinds (pn_type_t).  PN_TYPE is the type-reference atom of the flat atom *)
(* stream; PN_0 is the value 0 that fill and parse_atoms hand to           *)
(* pn_data_put_array before the element type is known.                     *)
(***************************************************************************)
PN_DESCRIPTOR == "PN_DESCRIBED"
PN_TYPE == "PN_TYPE"
PN_0 == "PN_0"

FixedKinds ==
  {"PN_BOOL", "PN_UBYTE", "PN_BYTE", "PN_USHORT", "PN_SHORT", "PN_UINT",
   "PN_INT", "PN_CHAR", "PN_ULONG", "PN_LONG", "PN_TIMESTAMP", "PN_FLOAT",
   "PN_DOUBLE", "PN_DECIMAL32", "PN_DECIMAL64", "PN_DECIMAL128", "PN_UUID"}
BytesKinds == {"PN_BINARY", "PN_STRING", "PN_SYMBOL"}
CompoundKinds == {"PN_ARRAY", "PN_LIST", "PN_MAP"}

\* the width in bytes of the union member of a fixed-width kind
Width(type) ==
  CASE type \in {"PN_BOOL", "PN_UBYTE", "PN_BYTE"} -> 1
    [] type \in {"PN_USHORT", "PN_SHORT"} -> 2
    [] type \in {"PN_UINT", "PN_INT", "PN_CHAR", "PN_FLOAT", "PN_DECIMAL32"} -> 4
    [] type \in {"PN_ULONG", "PN_LONG", "PN_TIMESTAMP", "PN_DOUBLE",
                 "PN_DECIMAL64"} -> 8
    [] type \in {"PN_DECIMAL128", "PN_UUID"} -> 16
    [] OTHER -> 0

(***************************************************************************)
(* Byte-sequence helpers.                                                  *)
(***************************************************************************)
\* n copies of the byte b
Rep(b, n) == [i \in 1..n |-> b]

Last(s, n) == SubSeq(s, Len(s) - n + 1, Len(s))

\* the big-endian bytes of the low n bytes of the integer v (two's complement:
\* \div rounds down and % is non-negative)
RECURSIVE BE(_, _)
BE(v, n) == IF n = 0 THEN << >> ELSE BE(v \div 256, n - 1) \o <<v % 256>>

\* the natural number held by big-endian bytes (sizes and counts)
RECURSIVE ToNat(_)
ToNat(s) == IF s = << >> THEN 0
            ELSE 256 * ToNat(SubSeq(s, 1, Len(s) - 1)) + s[Len(s)]

IsZero(s) == \A i \in 1..Len(s) : s[i] = 0

\* value < 256 for a big-endian unsigned payload
Below256(s) == IsZero(SubSeq(s, 1, Len(s) - 1))

(***************************************************************************)
(* The value tree: pn_node_t, pn_data_t.                                   *)
(***************************************************************************)
\* A pointer to bytes: into the interned store of the tree that holds it
\* ("store": the store's base address at the time plus an offset), into memory
\* outside the tree ("ext": the caller's bytes or the decode input, carried in
\* mem), or NULL.
NullPtr == [kind |-> "null", base |-> 0, off |-> 0, mem |-> << >>]
StorePtr(base, off) == [kind |-> "store", base |-> base, off |-> off, mem |-> << >>]
ExtPtr(mem, off) == [kind |-> "ext", base |-> 0, off |-> off, mem |-> mem]

\* pn_iatom_t: the tag and the union, val for the fixed-width members
\* (big-endian), size and start for the pn_bytes_t members
Atom(type, val) == [type |-> type, val |-> val, size |-> 0, start |-> NullPtr]
BytesAtom(type, size, start) ==
  [type |-> type, val |-> << >>, size |-> size, start |-> start]

\* a node as pn_data_new leaves it, before pn_data_add links it
FreshNode ==
  [next |-> 0, prev |-> 0, down |-> 0, parent |-> 0, children |-> 0,
   atom |-> Atom(PN_0, << >>),
   described |-> FALSE, type |-> PN_0,
   data |-> FALSE, data_offset |-> 0, data_size |-> 0,
   start |-> 0, small |-> FALSE]

BufferInitial == 64

\* pn_buffer(64): the interned byte store
pn_buffer(capacity) == [bytes |-> << >>, capacity |-> capacity, base |-> 0]

pn_data(capacity) ==
  [capacity |-> capacity, size |-> 0, nodes |-> << >>,
   buf |-> pn_buffer(BufferInitial),
   parent |-> 0, current |-> 0, base_parent |-> 0, base_current |-> 0,
   extras |-> 0]

pn_data_clear(d) ==
  [d EXCEPT !.size = 0, !.nodes = << >>, !.extras = 0,
            !.parent = 0, !.current = 0,
            !.base_parent = 0, !.base_current = 0,
            !.buf = [@ EXCEPT !.bytes = << >>]]

pn_data_size(d) == d.size

\* realloc of the node array to twice the capacity
pn_data_grow(d) ==
  [d EXCEPT !.capacity = 2 * (IF d.capacity # 0 THEN d.capacity ELSE 16)]

\* the node pn_data_new hands out: the next slot of the array
NewNode(g) == [g EXCEPT !.size = g.size + 1, !.nodes = Append(g.nodes, FreshNode)]

pn_data_new(d) ==
  NewNode(IF d.capacity <= d.size THEN pn_data_grow(d) ELSE d)

pn_data_rewind(d) ==
  [d EXCEPT !.parent = d.base_parent, !.current = d.base_current]

pn_data_narrow(d) ==
  [d EXCEPT !.base_parent = d.parent, !.base_current = d.current]

pn_data_widen(d) == [d EXCEPT !.base_parent = 0, !.base_current = 0]

pn_data_point(d) == [parent |-> d.parent, current |-> d.current]

pn_data_restore_ok(d, point) ==
  \/ point.current # 0 /\ point.current <= d.size
  \/ point.parent # 0 /\ point.parent <= d.size

\* a restore that trusts the parent the point recorded
pn_data_restore_recorded(d, point) ==
  IF point.current # 0 /\ point.current <= d.size
  THEN [d EXCEPT !.current = point.current, !.parent = point.parent]
  ELSE IF point.parent # 0 /\ point.parent <= d.size
  THEN [d EXCEPT !.parent = point.parent, !.current = 0]
  ELSE d

pn_data_restore(d, point) ==
  IF point.current # 0 /\ point.current <= d.size
  THEN [d EXCEPT !.current = point.current,
                 !.parent = d.nodes[point.current].parent]
  ELSE IF point.parent # 0 /\ point.parent <= d.size
  THEN [d EXCEPT !.parent = point.parent, !.current = 0]
  ELSE d

\* the index pn_data_peek returns a pointer to (0: NULL)
pn_data_peek(d) ==
  IF d.current # 0 THEN d.nodes[d.current].next
  ELSE IF d.parent # 0 THEN d.nodes[d.parent].down
  ELSE 0

\* the node pn_data_next moves to (0: it returns false)
NextTarget(d) ==
  IF d.current # 0 THEN d.nodes[d.current].next
  ELSE IF d.parent # 0 /\ d.nodes[d.parent].down # 0 THEN d.nodes[d.parent].down
  ELSE IF d.parent = 0 /\ d.size # 0 THEN 1
  ELSE 0

pn_data_next_ok(d) == NextTarget(d) # 0

pn_data_next(d) ==
  IF NextTarget(d) # 0 THEN [d EXCEPT !.current = NextTarget(d)] ELSE d

pn_data_prev_ok(d) == d.current # 0 /\ d.nodes[d.current].prev # 0

pn_data_prev(d) ==
  IF pn_data_prev_ok(d) THEN [d EXCEPT !.current = d.nodes[d.current].prev]
  ELSE d

pn_data_type(d) ==
  IF d.current # 0 THEN d.nodes[d.current].atom.type ELSE "-1"

pn_data_enter_ok(d) == d.current # 0

pn_data_enter(d) ==
  IF d.current # 0 THEN [d EXCEPT !.parent = d.current, !.current = 0] ELSE d

pn_data_exit_ok(d) == d.parent # 0

pn_data_exit(d) ==
  IF d.parent # 0
  THEN [d EXCEPT !.current = d.parent, !.parent = d.nodes[d.parent].parent]
  ELSE d

\* the tail of pn_data_add without the reset of the children: the node the
\* cursor lands on keeps the children it had
AddFinishKeep(d, n) ==
  [d EXCEPT !.nodes[n].data = FALSE, !.nodes[n].data_offset = 0,
            !.nodes[n].data_size = 0, !.current = n]

\* the tail of pn_data_add: the node the cursor lands on is reset
AddFinish(d, n) ==
  [d EXCEPT !.nodes[n].down = 0, !.nodes[n].children = 0,
            !.nodes[n].data = FALSE, !.nodes[n].data_offset = 0,
            !.nodes[n].data_size = 0, !.current = n]

\* the parent, if any, gains a child (and a first child if it had none)
AddChild(d, n) ==
  IF d.parent = 0 THEN d
  ELSE [d EXCEPT !.nodes[d.parent].down = IF @ = 0 THEN n ELSE @,
                 !.nodes[d.parent].children = @ + 1]

\* the new node g.size is linked after the current node
AddAfter(g) ==
  AddFinish(AddChild([g EXCEPT !.nodes[g.size].prev = g.current,
                               !.nodes[g.current].next = g.size,
                               !.nodes[g.size].parent = g.parent], g.size),
            g.size)

\* the new node g.size becomes the first child of the parent
AddFirst(g) ==
  AddFinish([g EXCEPT !.nodes[g.size].prev = 0,
                      !.nodes[g.size].parent = g.parent,
                      !.nodes[g.parent].down = g.size,
                      !.nodes[g.parent].children = @ + 1], g.size)

\* the new node g.size becomes the first node of the tree
AddTop(g) ==
  AddFinish([g EXCEPT !.nodes[g.size].prev = 0, !.nodes[g.size].parent = 0],
            g.size)

pn_data_add(d) ==
  IF d.current # 0 THEN
    IF d.nodes[d.current].next # 0
    THEN AddFinish(d, d.nodes[d.current].next)
    ELSE AddAfter(pn_data_new(d))
  ELSE IF d.parent # 0 THEN
    IF d.nodes[d.parent].down # 0
    THEN AddFinish(d, d.nodes[d.parent].down)
    ELSE AddFirst(pn_data_new(d))
  ELSE IF d.size # 0 THEN AddFinish(d, 1)
  ELSE AddTop(pn_data_new(d))

(***************************************************************************)
(* The interned byte store (pn_buffer_t, buffer.c) and interning.          *)
(***************************************************************************)
RECURSIVE Ensure(_, _)
Ensure(capacity, need) ==
  IF capacity >= need THEN capacity
  ELSE Ensure(2 * (IF capacity # 0 THEN capacity ELSE 16), need)

\* pn_buffer_append: grows by doubling; the grown store has a new base
\* address when realloc relocates it (h.moves), and the append fails when the
\* allocation fails (h.fails)
pn_buffer_append(buf, bytes, h) ==
  LET need == Len(buf.bytes) + Len(bytes)
      grows == need > buf.capacity
  IN IF grows /\ h.fails THEN [buf |-> buf, err |-> "PN_ERR"]
     ELSE [buf |-> [bytes |-> buf.bytes \o bytes,
                    capacity |-> Ensure(buf.capacity, need),
                    base |-> IF grows /\ h.moves THEN buf.base + 1 ELSE buf.base],
           err |-> "OK"]

Poison == 0 - 1

\* the bytes a read of size bytes through ptr finds; a pointer that is not
\* into live memory yields poison
Deref(d, ptr, size) ==
  IF ptr.kind = "ext" /\ ptr.off + size <= Len(ptr.mem)
  THEN SubSeq(ptr.mem, ptr.off + 1, ptr.off + size)
  ELSE IF ptr.kind = "store" /\ ptr.base = d.buf.base
          /\ ptr.off + size <= Len(d.buf.bytes)
  THEN SubSeq(d.buf.bytes, ptr.off + 1, ptr.off + size)
  ELSE Rep(Poison, size)

\* pn_data_bytes(node) # NULL
pn_data_bytes(node) == node.atom.type \in BytesKinds

pn_data_rebase(d, base) ==
  [d EXCEPT !.nodes =
     [i \in 1..d.size |->
        IF d.nodes[i].data
        THEN [d.nodes[i] EXCEPT !.atom.start = StorePtr(base, d.nodes[i].data_offset)]
        ELSE d.nodes[i]]]

\* the node records the offset and keeps the pointer the caller passed
InternSetOffset(d, n, buf) ==
  [d EXCEPT !.buf = buf,
            !.nodes[n].data = TRUE,
            !.nodes[n].data_offset = Len(d.buf.bytes),
            !.nodes[n].data_size = d.nodes[n].atom.size]

\* the node records where its bytes went in the store
InternSet(d, n, buf) ==
  [d EXCEPT !.buf = buf,
            !.nodes[n].data = TRUE,
            !.nodes[n].data_offset = Len(d.buf.bytes),
            !.nodes[n].data_size = d.nodes[n].atom.size,
            !.nodes[n].atom.start = StorePtr(buf.base, Len(d.buf.bytes))]

\* the interned nodes left as they are when the store grew
InternKept(e, oldcap) == [d |-> e, err |-> "OK"]

\* every interned node is rebased when the store grew
InternRebase(e, oldcap) ==
  [d |-> IF e.buf.capacity # oldcap THEN pn_data_rebase(e, e.buf.base) ELSE e,
   err |-> "OK"]

\* r: what pn_buffer_append returned
InternAppended(d, n, r) ==
  IF r.err # "OK" THEN [d |-> d, err |-> r.err]
  ELSE InternRebase(InternSet(d, n, r.buf), d.buf.capacity)

pn_data_intern_node(d, n, h) ==
  IF ~pn_data_bytes(d.nodes[n]) THEN [d |-> d, err |-> "OK"]
  ELSE InternAppended(d, n,
         pn_buffer_append(d.buf,
                          Deref(d, d.nodes[n].atom.start, d.nodes[n].atom.size), h))

(***************************************************************************)
(* pn_data_put_*                                                           *)
(***************************************************************************)
SetAtom(d, atom) == [d EXCEPT !.nodes[d.current].atom = atom]

\* put_null .. put_uuid: add a node, set its tag and its fixed-width payload
pn_data_put_fixed(d, type, val) == SetAtom(pn_data_add(d), Atom(type, val))

pn_data_put_null(d) == pn_data_put_fixed(d, "PN_NULL", << >>)

pn_data_put_list(d) == SetAtom(pn_data_add(d), Atom("PN_LIST", << >>))

pn_data_put_map(d) == SetAtom(pn_data_add(d), Atom("PN_MAP", << >>))

SetArray(a, described, type) ==
  [a EXCEPT !.nodes[a.current].described = described,
            !.nodes[a.current].type = type,
            !.extras = @ + 2]

pn_data_put_array(d, described, type) ==
  SetArray(SetAtom(pn_data_add(d), Atom("PN_ARRAY", << >>)), described, type)

\* only the tag is assigned
SetType(a, type) == [a EXCEPT !.nodes[a.current].atom.type = type]

pn_data_put_described(d) == SetType(pn_data_add(d), PN_DESCRIPTOR)

\* put_binary, put_string, put_symbol: bytes = [size, start]
InternCurrent(a, h) == pn_data_intern_node(a, a.current, h)

pn_data_put_var(d, type, bytes, h) ==
  InternCurrent(SetAtom(pn_data_add(d), BytesAtom(type, bytes.size, bytes.start)), h)

\* the pn_bytes_t a caller passes for the bytes content
pn_bytes(content) == [size |-> Len(content), start |-> ExtPtr(content, 0)]

(***************************************************************************)
(* Primitive output: a pn_bytes_t view (start, size) of the caller's       *)
(* buffer of cap bytes.  o.out is the buffer, o.pos the offset of start,   *)
(* cap - pos the size of the view.  A store outside the buffer sets oob.   *)
(***************************************************************************)
Unwritten == 0 - 2

Output(d, cap, junk) ==
  [d |-> d, out |-> Rep(Unwritten, cap), cap |-> cap, pos |-> 0,
   err |-> "OK", oob |-> FALSE, junk |-> junk]

OutSize(o) == o.cap - o.pos

\* bytes stored at offset off .. off + Len(bytes) - 1 of the buffer
Store(o, off, bytes) ==
  [o EXCEPT !.out = [i \in 1..o.cap |->
                       IF i > off /\ i <= off + Len(bytes) THEN bytes[i - off]
                       ELSE o.out[i]],
            !.oob = @ \/ off + Len(bytes) > o.cap]

\* pn_bytes_ltrim on the output view
OutLtrim(o, size) ==
  [o EXCEPT !.pos = @ + (IF size > OutSize(o) THEN OutSize(o) ELSE size)]

Fail(o, err) == [o EXCEPT !.err = err]

\* a write that does not look at the room left
pn_i_bytes_writef_unchecked(o, value) ==
  OutLtrim(Store(o, o.pos, value), Len(value))

\* pn_i_bytes_writef8 / writef16 / writef32 / writef64 / writef128: value is
\* the big-endian bytes of the value, of the width of the function
pn_i_bytes_writef(o, value) ==
  IF OutSize(o) < Len(value) THEN Fail(o, "PN_OVERFLOW")
  ELSE OutLtrim(Store(o, o.pos, value), Len(value))

\* pn_i_bytes_writev8 / writev32: a length prefix of width bytes, then the
\* content
WritevContent(p, size, content) ==
  IF p.err # "OK" THEN p ELSE OutLtrim(Store(p, p.pos, content), size)

pn_i_bytes_writev(o, width, size, content) ==
  IF OutSize(o) < width + size THEN Fail(o, "PN_OVERFLOW")
  ELSE WritevContent(pn_i_bytes_writef(o, Last(BE(size, 4), width)), size, content)

(***************************************************************************)
(* Encode.                                                                 *)
(***************************************************************************)
pn_type2code(type) ==
  CASE type = "PN_NULL" -> PNE_NULL
    [] type = "PN_BOOL" -> PNE_BOOLEAN
    [] type = "PN_UBYTE" -> PNE_UBYTE
    [] type = "PN_BYTE" -> PNE_BYTE
    [] type = "PN_USHORT" -> PNE_USHORT
    [] type = "PN_SHORT" -> PNE_SHORT
    [] type = "PN_UINT" -> PNE_UINT
    [] type = "PN_INT" -> PNE_INT
    [] type = "PN_CHAR" -> PNE_UTF32
    [] type = "PN_FLOAT" -> PNE_FLOAT
    [] type = "PN_LONG" -> PNE_LONG
    [] type = "PN_TIMESTAMP" -> PNE_MS64
    [] type = "PN_DOUBLE" -> PNE_DOUBLE
    [] type = "PN_DECIMAL32" -> PNE_DECIMAL32
    [] type = "PN_DECIMAL64" -> PNE_DECIMAL64
    [] type = "PN_DECIMAL128" -> PNE_DECIMAL128
    [] type = "PN_UUID" -> PNE_UUID
    [] type = "PN_ULONG" -> PNE_ULONG
    [] type = "PN_BINARY" -> PNE_VBIN32
    [] type = "PN_STRING" -> PNE_STR32_UTF8
    [] type = "PN_SYMBOL" -> PNE_SYM32
    [] type = "PN_LIST" -> PNE_LIST32
    [] type = "PN_ARRAY" -> PNE_ARRAY32
    [] type = "PN_MAP" -> PNE_MAP32
    [] type = PN_DESCRIPTOR -> PNE_DESCRIPTOR
    [] OTHER -> 0 - 1

\* pn_type2code ends in pn_fatal for a type that is no value type
IsValueType(type) == pn_type2code(type) >= 0

\* pn_node2code with the ulong threshold two bytes wide
pn_node2code_wide(node) ==
  CASE node.atom.type = "PN_ULONG" ->
         IF IsZero(SubSeq(node.atom.val, 1, 6)) THEN PNE_SMALLULONG ELSE PNE_ULONG
    [] node.atom.type = "PN_UINT" ->
         IF Below256(node.atom.val) THEN PNE_SMALLUINT ELSE PNE_UINT
    [] node.atom.type = "PN_BOOL" ->
         IF ~IsZero(node.atom.val) THEN PNE_TRUE ELSE PNE_FALSE
    [] node.atom.type = "PN_STRING" ->
         IF node.atom.size < 256 THEN PNE_STR8_UTF8 ELSE PNE_STR32_UTF8
    [] node.atom.type = "PN_SYMBOL" ->
         IF node.atom.size < 256 THEN PNE_SYM8 ELSE PNE_SYM32
    [] node.atom.type = "PN_BINARY" ->
         IF node.atom.size < 256 THEN PNE_VBIN8 ELSE PNE_VBIN32
    [] OTHER -> pn_type2code(node.atom.type)

\* pn_node2code with the sizes compared by <= 256
pn_node2code_inclusive(node) ==
  CASE node.atom.type = "PN_ULONG" ->
         IF Below256(node.atom.val) THEN PNE_SMALLULONG ELSE PNE_ULONG
    [] node.atom.type = "PN_UINT" ->
         IF Below256(node.atom.val) THEN PNE_SMALLUINT ELSE PNE_UINT
    [] node.atom.type = "PN_BOOL" ->
         IF ~IsZero(node.atom.val) THEN PNE_TRUE ELSE PNE_FALSE
    [] node.atom.type = "PN_STRING" ->
         IF node.atom.size <= 256 THEN PNE_STR8_UTF8 ELSE PNE_STR32_UTF8
    [] node.atom.type = "PN_SYMBOL" ->
         IF node.atom.size <= 256 THEN PNE_SYM8 ELSE PNE_SYM32
    [] node.atom.type = "PN_BINARY" ->
         IF node.atom.size <= 256 THEN PNE_VBIN8 ELSE PNE_VBIN32
    [] OTHER -> pn_type2code(node.atom.type)

pn_node2code(node) ==
  CASE node.atom.type = "PN_ULONG" ->
         IF Below256(node.atom.val) THEN PNE_SMALLULONG ELSE PNE_ULONG
    [] node.atom.type = "PN_UINT" ->
         IF Below256(node.atom.val) THEN PNE_SMALLUINT ELSE PNE_UINT
    [] node.atom.type = "PN_BOOL" ->
         IF ~IsZero(node.atom.val) THEN PNE_TRUE ELSE PNE_FALSE
    [] node.atom.type = "PN_STRING" ->
         IF node.atom.size < 256 THEN PNE_STR8_UTF8 ELSE PNE_STR32_UTF8
    [] node.atom.type = "PN_SYMBOL" ->
         IF node.atom.size < 256 THEN PNE_SYM8 ELSE PNE_SYM32
    [] node.atom.type = "PN_BINARY" ->
         IF node.atom.size < 256 THEN PNE_VBIN8 ELSE PNE_VBIN32
    [] OTHER -> pn_type2code(node.atom.type)

\* The big-endian value of the w-byte union member of an atom (w <= 8), as
\* encode reads it.  When the atom holds a member of another kind the union's
\* storage is reinterpreted (little-endian, LP64): the low bytes come from the
\* stored member, bytes the stored member does not cover are indeterminate.
Stored(atom) ==
  IF atom.type \in FixedKinds THEN atom.val
  ELSE IF atom.type \in BytesKinds THEN BE(atom.size, 8)
  ELSE IF atom.type \in CompoundKinds \cup {"PN_NULL"} THEN Rep(0, 8)
  ELSE << >>

Pad(stored, w, junk) ==
  IF Len(stored) >= w THEN Last(stored, w)
  ELSE Rep(junk, w - Len(stored)) \o stored

Member(atom, w, junk) == Pad(Stored(atom), w, junk)

\* the width of the payload written for a fixed-width code (0: none)
CodeWidth(code) ==
  CASE code \in {PNE_BOOLEAN, PNE_UBYTE, PNE_BYTE, PNE_SMALLUINT, PNE_SMALLINT,
                 PNE_SMALLULONG} -> 1
    [] code \in {PNE_USHORT, PNE_SHORT} -> 2
    [] code \in {PNE_UINT, PNE_INT, PNE_UTF32, PNE_FLOAT, PNE_DECIMAL32} -> 4
    [] code \in {PNE_ULONG, PNE_LONG, PNE_MS64, PNE_DOUBLE, PNE_DECIMAL64} -> 8
    [] code \in {PNE_DECIMAL128, PNE_UUID} -> 16
    [] OTHER -> 0

\* the pn_bytes_t member as encode reads it: of another kind of atom the
\* pointer is indeterminate
BytesMember(o, atom) ==
  IF atom.type \in BytesKinds THEN Deref(o.d, atom.start, atom.size)
  ELSE Rep(Poison, ToNat(Member(atom, 4, o.junk)))

BytesMemberSize(o, atom) ==
  IF atom.type \in BytesKinds THEN atom.size
  ELSE ToNat(Member(atom, 4, o.junk))

\* the code of a node: that of the element type of the array it is in, or
\* its own
NodeCode(o, parent, n) ==
  IF parent # 0 /\ o.d.nodes[parent].atom.type = "PN_ARRAY"
  THEN pn_type2code(o.d.nodes[parent].type)
  ELSE pn_node2code(o.d.nodes[n])

\* the code written before every child of an array
StampedEach(o, parent, n) == TRUE

\* whether the code is written: in an array only before the first child and,
\* in a described array, before the second
Stamped(o, parent, n) ==
  IF parent # 0 /\ o.d.nodes[parent].atom.type = "PN_ARRAY"
  THEN \/ o.d.nodes[n].prev = 0
       \/ o.d.nodes[parent].described /\ o.d.nodes[o.d.nodes[n].prev].prev = 0
  ELSE TRUE

\* node->start = bytes->start; node->small = false
Reserve(c, n) == [c EXCEPT !.d.nodes[n].start = c.pos, !.d.nodes[n].small = FALSE]

EncodeArrayFlag(w, described) ==
  IF w.err # "OK" THEN w
  ELSE IF described THEN pn_i_bytes_writef(w, <<0>>)
  ELSE w

\* the count of a compound, after the four bytes left for its size
EncodeCount(t, n, code) ==
  IF code = PNE_ARRAY32
  THEN EncodeArrayFlag(
         pn_i_bytes_writef(t, BE(IF t.d.nodes[n].described
                                 THEN t.d.nodes[n].children - 1
                                 ELSE t.d.nodes[n].children, 4)),
         t.d.nodes[n].described)
  ELSE pn_i_bytes_writef(t, BE(t.d.nodes[n].children, 4))

EncodeCompound(r, n, code) ==
  IF OutSize(r) < 4 THEN Fail(r, "PN_OVERFLOW")
  ELSE EncodeCount(OutLtrim(r, 4), n, code)

\* the switch on the code, after the code is written
EncodePayload(c, n, code, width) ==
  IF c.err # "OK" THEN c
  ELSE CASE code \in {PNE_DESCRIPTOR, PNE_NULL, PNE_TRUE, PNE_FALSE, PNE_UINT0} -> c
         [] width \in 1..8 ->
              pn_i_bytes_writef(c, Member(c.d.nodes[n].atom, width, c.junk))
         [] width = 16 ->
              pn_i_bytes_writef(c, IF Len(c.d.nodes[n].atom.val) = 16
                                   THEN c.d.nodes[n].atom.val
                                   ELSE Rep(c.junk, 16))
         [] code \in {PNE_VBIN8, PNE_STR8_UTF8, PNE_SYM8} ->
              pn_i_bytes_writev(c, 1, BytesMemberSize(c, c.d.nodes[n].atom),
                                BytesMember(c, c.d.nodes[n].atom))
         [] code \in {PNE_VBIN32, PNE_STR32_UTF8, PNE_SYM32} ->
              pn_i_bytes_writev(c, 4, BytesMemberSize(c, c.d.nodes[n].atom),
                                BytesMember(c, c.d.nodes[n].atom))
         [] code \in {PNE_ARRAY32, PNE_LIST32, PNE_MAP32} ->
              EncodeCompound(Reserve(c, n), n, code)
         [] OTHER -> Fail(c, "PN_ERR")

EncodeCoded(o, n, code, stamp) ==
  IF code < 0 THEN Fail(o, "FATAL")
  ELSE EncodePayload(IF stamp THEN pn_i_bytes_writef(o, <<code>>) ELSE o,
                     n, code, CodeWidth(code))

pn_data_encode_node(o, parent, n) ==
  EncodeCoded(o, n, NodeCode(o, parent, n), Stamped(o, parent, n))

\* the back-filled size: an independent pn_bytes_t of 1 or 4 bytes at
\* node->start
BackfillWidth(o, n, w) ==
  Store(o, o.d.nodes[n].start, BE(o.pos - o.d.nodes[n].start - w, w))

Backfill(o, n) == BackfillWidth(o, n, IF o.d.nodes[n].small THEN 1 ELSE 4)

ExitBackfill(w, n) == IF w.err # "OK" THEN w ELSE Backfill(w, n)

pn_data_encode_node_exit(o, n) ==
  CASE o.d.nodes[n].atom.type = "PN_ARRAY" ->
         IF (o.d.nodes[n].described /\ o.d.nodes[n].children = 1)
            \/ (~o.d.nodes[n].described /\ o.d.nodes[n].children = 0)
         THEN IF ~IsValueType(o.d.nodes[n].type) THEN Fail(o, "FATAL")
              ELSE ExitBackfill(
                     pn_i_bytes_writef(o, <<pn_type2code(o.d.nodes[n].type)>>), n)
         ELSE Backfill(o, n)
    [] o.d.nodes[n].atom.type \in {"PN_LIST", "PN_MAP"} -> Backfill(o, n)
    [] OTHER -> o

\* the loop over the ancestors of a last child: exit each, stop at the first
\* that has a next sibling.  Yields the output state and the next node.
RECURSIVE EncodeAscend(_, _)
AscendFrom(x, parent) ==
  IF x.err # "OK" THEN [o |-> x, next |-> 0]
  ELSE IF x.d.nodes[parent].next # 0
  THEN [o |-> x, next |-> x.d.nodes[parent].next]
  ELSE EncodeAscend(x, x.d.nodes[parent].parent)

EncodeAscend(o, parent) ==
  IF parent = 0 THEN [o |-> o, next |-> 0]
  ELSE AscendFrom(pn_data_encode_node_exit(o, parent), parent)

RECURSIVE EncodeWalk(_, _)
WalkAscended(a) == IF a.o.err # "OK" THEN a.o ELSE EncodeWalk(a.o, a.next)

WalkExited(x, n) ==
  IF x.err # "OK" THEN x
  ELSE IF x.d.nodes[n].next # 0 THEN EncodeWalk(x, x.d.nodes[n].next)
  ELSE WalkAscended(EncodeAscend(x, x.d.nodes[n].parent))

WalkEncoded(e, n) ==
  IF e.err # "OK" THEN e
  ELSE IF e.d.nodes[n].down # 0 THEN EncodeWalk(e, e.d.nodes[n].down)
  ELSE WalkExited(pn_data_encode_node_exit(e, n), n)

EncodeWalk(o, n) ==
  IF n = 0 THEN o
  ELSE WalkEncoded(pn_data_encode_node(o, o.d.nodes[n].parent, n), n)

\* pn_data_encode(data, bytes, size): the result holds the tree (encode
\* records start and small on its compound nodes), the buffer, the error and
\* in pos the value returned on success (size - lbytes.size)
pn_data_encode(d, cap, junk) ==
  EncodeWalk(Output(d, cap, junk), IF d.size # 0 THEN 1 ELSE 0)

(***************************************************************************)
(* Primitive input and the atom codec.  s.inp is the input, s.pos the      *)
(* offset of bytes->start, s.size the bytes left; s.atoms is the atom      *)
(* stream written so far and s.acap the room left in it.  A load at or     *)
(* beyond the end of the input sets oob and finds an arbitrary byte, junk. *)
(***************************************************************************)
IAtom(type) ==
  [type |-> type, val |-> << >>, size |-> 0, start |-> NullPtr,
   count |-> 0, tref |-> PN_0]

Input(inp, acap, junk) ==
  [inp |-> inp, pos |-> 0, size |-> Len(inp), atoms |-> << >>, acap |-> acap,
   err |-> "OK", oob |-> FALSE, junk |-> junk, code |-> 0, val |-> << >>]

pn_bytes_ltrim(s, size) ==
  LET n == IF size > s.size THEN s.size ELSE size
  IN [s EXCEPT !.pos = @ + n, !.size = @ - n]

\* pn_atoms_ltrim(atoms, 1) after atoms->start[0] = atom
Emit(s, atom) == [s EXCEPT !.atoms = Append(@, atom), !.acap = @ - 1]

\* pn_i_bytes_readf8 / readf16 / readf32 / readf64: loads w bytes at start,
\* whatever the size of the view, and trims; the value read is left in val
Loaded(s, w) == [i \in 1..w |-> IF i <= s.size THEN s.inp[s.pos + i] ELSE s.junk]

pn_i_bytes_readf(s, w) ==
  [pn_bytes_ltrim(s, w) EXCEPT !.val = Loaded(s, w), !.oob = @ \/ w > s.size]

Err(s, err) == [s EXCEPT !.err = err]

pn_code2type(code) ==
  CASE code = PNE_NULL -> "PN_NULL"
    [] code \in {PNE_TRUE, PNE_FALSE, PNE_BOOLEAN} -> "PN_BOOL"
    [] code = PNE_UBYTE -> "PN_UBYTE"
    [] code = PNE_BYTE -> "PN_BYTE"
    [] code = PNE_USHORT -> "PN_USHORT"
    [] code = PNE_SHORT -> "PN_SHORT"
    [] code \in {PNE_UINT0, PNE_SMALLUINT, PNE_SMALLINT, PNE_UINT} -> "PN_UINT"
    [] code = PNE_INT -> "PN_INT"
    [] code = PNE_UTF32 -> "PN_CHAR"
    [] code = PNE_FLOAT -> "PN_FLOAT"
    [] code = PNE_LONG -> "PN_LONG"
    [] code = PNE_MS64 -> "PN_TIMESTAMP"
    [] code = PNE_DOUBLE -> "PN_DOUBLE"
    [] code = PNE_DECIMAL32 -> "PN_DECIMAL32"
    [] code = PNE_DECIMAL64 -> "PN_DECIMAL64"
    [] code = PNE_DECIMAL128 -> "PN_DECIMAL128"
    [] code = PNE_UUID -> "PN_UUID"
    [] code \in {PNE_ULONG0, PNE_SMALLULONG, PNE_SMALLLONG, PNE_ULONG} -> "PN_ULONG"
    [] code \in {PNE_VBIN8, PNE_VBIN32} -> "PN_BINARY"
    [] code \in {PNE_STR8_UTF8, PNE_STR32_UTF8} -> "PN_STRING"
    [] code \in {PNE_SYM8, PNE_SYM32} -> "PN_SYMBOL"
    [] code \in {PNE_LIST0, PNE_LIST8, PNE_LIST32} -> "PN_LIST"
    [] code \in {PNE_ARRAY8, PNE_ARRAY32} -> "PN_ARRAY"
    [] code \in {PNE_MAP8, PNE_MAP32} -> "PN_MAP"
    [] OTHER -> "PN_ARG_ERR"

\* the fixed-width codes of pn_decode_value: the kind of the atom, the bytes
\* read, the bytes of the union member
FixedCodes ==
  {PNE_BOOLEAN, PNE_UBYTE, PNE_BYTE, PNE_USHORT, PNE_SHORT, PNE_UINT,
   PNE_SMALLUINT, PNE_SMALLINT, PNE_INT, PNE_UTF32, PNE_FLOAT, PNE_DECIMAL32,
   PNE_ULONG, PNE_LONG, PNE_MS64, PNE_DOUBLE, PNE_DECIMAL64, PNE_SMALLULONG,
   PNE_SMALLLONG, PNE_DECIMAL128, PNE_UUID}

FixedCodeKind(code) ==
  CASE code = PNE_SMALLUINT -> "PN_UINT"
    [] code = PNE_SMALLINT -> "PN_INT"
    [] code = PNE_SMALLULONG -> "PN_ULONG"
    [] code = PNE_SMALLLONG -> "PN_LONG"
    [] OTHER -> pn_code2type(code)

FixedCodeRead(code) ==
  IF code \in {PNE_SMALLUINT, PNE_SMALLINT, PNE_SMALLULONG, PNE_SMALLLONG}
  THEN 1 ELSE Width(pn_code2type(code))

\* the conversion with the byte of every small form sign-extended
FixedCodeValueSigned(code, v) ==
  CASE code = PNE_BOOLEAN -> IF v[1] # 0 THEN <<1>> ELSE <<0>>
    [] code \in {PNE_SMALLUINT, PNE_SMALLINT} ->
         Rep(IF v[1] >= 128 THEN 255 ELSE 0, 3) \o v
    [] code \in {PNE_SMALLULONG, PNE_SMALLLONG} ->
         Rep(IF v[1] >= 128 THEN 255 ELSE 0, 7) \o v
    [] OTHER -> v

\* the conversion of the bytes read to the member assigned
FixedCodeValue(code, v) ==
  CASE code = PNE_BOOLEAN -> IF v[1] # 0 THEN <<1>> ELSE <<0>>
    [] code \in {PNE_SMALLUINT, PNE_SMALLINT} -> Rep(0, 3) \o v
    [] code = PNE_SMALLULONG -> Rep(0, 7) \o v
    [] code = PNE_SMALLLONG -> Rep(IF v[1] >= 128 THEN 255 ELSE 0, 7) \o v
    [] OTHER -> v

RECURSIVE pn_decode_atom(_), pn_decode_type(_), pn_decode_value(_, _),
          DecodeValues(_, _, _), DecodeAtoms(_, _)

DecodeTypeAfter(a) == IF a.err # "OK" THEN a ELSE pn_decode_type(a)

\* leaves the type code in code
pn_decode_type(s) ==
  IF s.size = 0 THEN Err(s, "PN_UNDERFLOW")
  ELSE IF s.acap = 0 THEN Err(s, "PN_OVERFLOW")
  ELSE IF s.inp[s.pos + 1] # PNE_DESCRIPTOR
  THEN [pn_bytes_ltrim(s, 1) EXCEPT !.code = s.inp[s.pos + 1]]
  ELSE DecodeTypeAfter(pn_decode_atom(Emit(pn_bytes_ltrim(s, 1), IAtom(PN_DESCRIPTOR))))

DecodeValuesAfter(v, code, count) ==
  IF v.err # "OK" THEN v ELSE DecodeValues(v, code, count - 1)

\* for (i = 0; i < count; i++) pn_decode_value(bytes, atoms, acode)
DecodeValues(s, code, count) ==
  IF count = 0 THEN s ELSE DecodeValuesAfter(pn_decode_value(s, code), code, count)

DecodeAtomsAfter(v, count) ==
  IF v.err # "OK" THEN v ELSE DecodeAtoms(v, count - 1)

\* for (i = 0; i < count; i++) pn_decode_atom(bytes, atoms)
DecodeAtoms(s, count) ==
  IF count = 0 THEN s ELSE DecodeAtomsAfter(pn_decode_atom(s), count)

\* the tail of pn_decode_value: the atom is stored if there is room
Final(t, atom) == IF t.acap = 0 THEN Err(t, "PN_OVERFLOW") ELSE Emit(t, atom)

DecodeFixed(r, code) ==
  Final(r, [IAtom(FixedCodeKind(code)) EXCEPT !.val = FixedCodeValue(code, r.val)])

\* the width of the length prefix, and of the size and count of a compound
PrefixWidth(code) ==
  IF code \in {PNE_VBIN8, PNE_STR8_UTF8, PNE_SYM8, PNE_ARRAY8, PNE_LIST8, PNE_MAP8}
  THEN 1 ELSE 4

DecodeVarSized(r, code, size) ==
  IF r.size < size THEN Err(r, "PN_UNDERFLOW")
  ELSE Final(pn_bytes_ltrim(r, size),
             [IAtom(pn_code2type(code)) EXCEPT
                !.size = size, !.start = ExtPtr(r.inp, r.pos)])

DecodeVar(s, code, w) ==
  IF s.size < w THEN Err(s, "PN_UNDERFLOW")
  ELSE DecodeVarSized(pn_i_bytes_readf(s, w), code, ToNat(Loaded(s, w)))

DecodeArrayTyped(t, type, count) ==
  IF t.err # "OK" THEN t
  ELSE IF t.acap = 0 THEN Err(t, "PN_OVERFLOW")
  ELSE IF type = "PN_ARG_ERR" THEN Err(t, "PN_ARG_ERR")
  ELSE DecodeValues(Emit(t, [IAtom(PN_TYPE) EXCEPT !.tref = type]), t.code, count)

DecodeArray(t, count) == DecodeArrayTyped(t, pn_code2type(t.code), count)

\* rc: the input after the size and the count were read
DecodeCounted(rc, code, count) ==
  IF rc.acap = 0 THEN Err(rc, "PN_OVERFLOW")
  ELSE IF code \in {PNE_ARRAY8, PNE_ARRAY32}
  THEN DecodeArray(pn_decode_type(Emit(rc, [IAtom("PN_ARRAY") EXCEPT !.count = count])),
                   count)
  ELSE DecodeAtoms(Emit(rc, [IAtom(pn_code2type(code)) EXCEPT !.count = count]), count)

DecodeSized(rs, code, w) ==
  DecodeCounted(pn_i_bytes_readf(rs, w), code, ToNat(Loaded(rs, w)))

\* the 8-bit forms check for two bytes, the 32-bit forms check nothing
DecodeCompound(s, code, w) ==
  IF w = 1 /\ s.size < 2 THEN Err(s, "PN_UNDERFLOW")
  ELSE DecodeSized(pn_i_bytes_readf(s, w), code, w)

pn_decode_value(s, code) ==
  IF s.acap = 0 THEN Err(s, "PN_OVERFLOW")
  ELSE CASE code = PNE_DESCRIPTOR -> Err(s, "PN_ARG_ERR")
    [] code = PNE_NULL -> Final(s, IAtom("PN_NULL"))
    [] code = PNE_TRUE -> Final(s, [IAtom("PN_BOOL") EXCEPT !.val = <<1>>])
    [] code = PNE_FALSE -> Final(s, [IAtom("PN_BOOL") EXCEPT !.val = <<0>>])
    [] code = PNE_UINT0 -> Final(s, [IAtom("PN_UINT") EXCEPT !.val = Rep(0, 4)])
    [] code = PNE_ULONG0 -> Final(s, [IAtom("PN_ULONG") EXCEPT !.val = Rep(0, 8)])
    [] code \in FixedCodes ->
         IF s.size < FixedCodeRead(code) THEN Err(s, "PN_UNDERFLOW")
         ELSE DecodeFixed(pn_i_bytes_readf(s, FixedCodeRead(code)), code)
    [] code \in {PNE_VBIN8, PNE_STR8_UTF8, PNE_SYM8,
                 PNE_VBIN32, PNE_STR32_UTF8, PNE_SYM32} ->
         DecodeVar(s, code, PrefixWidth(code))
    [] code = PNE_LIST0 -> Final(s, IAtom("PN_LIST"))
    [] code \in {PNE_ARRAY8, PNE_LIST8, PNE_MAP8, PNE_ARRAY32, PNE_LIST32, PNE_MAP32} ->
         DecodeCompound(s, code, PrefixWidth(code))
    [] OTHER -> Err(s, "PN_ARG_ERR")

DecodeAtomValue(t) == IF t.err # "OK" THEN t ELSE pn_decode_value(t, t.code)

pn_decode_atom(s) == DecodeAtomValue(pn_decode_type(s))

\* pn_decode_one over copies of the views: on success bytes->size becomes the
\* number of bytes consumed (the pos reached) and atoms->size the atoms written
pn_decode_one(inp, asize, junk) == pn_decode_atom(Input(inp, asize, junk))

(***************************************************************************)
(* Decode: the flat atom stream rebuilt as a tree.                         *)
(***************************************************************************)
\* atoms.start[i].type; beyond the atoms written the stream is uninitialised
AtomType(atoms, i) == IF i + 1 <= Len(atoms) THEN atoms[i + 1].type ELSE "UNINIT"

\* The for loop of pn_data_parse_atoms, at index i with count elements put.
\* r.n is the value returned (i - offset) when r.err is "OK".
RECURSIVE ParseLoop(_, _, _, _, _, _, _)

\* after the recursive call on the children of the atom at i: step < 0 is
\* returned, otherwise i += step, exit, count++
ParseChildren(r, atoms, i, offset, limit, count, h) ==
  IF r.err # "OK" THEN r
  ELSE ParseLoop(pn_data_exit(r.d), atoms, i + r.n + 1, offset, limit, count + 1, h)

\* array->type = atoms.start[i+1].u.type.  array was taken before the
\* descriptor was put: when that put relocated the node array the store
\* through it does not reach the node
ParseArrayType(a, r, atoms, j, h) ==
  IF r.d.capacity # a.capacity /\ h.moves THEN r.d
  ELSE [r.d EXCEPT !.nodes[a.current].type = atoms[j + 2].tref]

\* a: the tree after pn_data_put_array, r: after the descriptor, if any, was
\* parsed, j: the index i then has
ParseArrayElements(a, r, atoms, acount, j, offset, limit, count, h) ==
  IF r.err # "OK" THEN r
  ELSE IF AtomType(atoms, j + 1) # PN_TYPE
  THEN [d |-> r.d, err |-> "PN_ERR", n |-> 0]
  ELSE ParseChildren(ParseLoop(ParseArrayType(a, r, atoms, j, h), atoms, j + 2, j + 2,
                               acount, 0, h),
                     atoms, j + 1, offset, limit, count, h)

ParseArrayDescribed(a, r, atoms, acount, i, offset, limit, count, h) ==
  ParseArrayElements(a, r, atoms, acount, i + 1 + r.n, offset, limit, count, h)

ParseArray(a, described, atoms, acount, i, offset, limit, count, h) ==
  IF described
  THEN ParseArrayDescribed(a, ParseLoop(pn_data_enter(a), atoms, i + 2, i + 2, 1, 0, h),
                           atoms, acount, i, offset, limit, count, h)
  ELSE ParseArrayElements(a, [d |-> pn_data_enter(a), err |-> "OK", n |-> 0],
                          atoms, acount, i, offset, limit, count, h)

\* the switch on the type of the atom at i
ParseAtom(d, atoms, atom, i, offset, limit, count, h) ==
  IF atom.type = PN_TYPE THEN [d |-> d, err |-> "PN_ERR", n |-> 0]
  ELSE IF atom.type \in FixedKinds \cup {"PN_NULL"}
  THEN ParseLoop(pn_data_put_fixed(d, atom.type, atom.val), atoms, i + 1, offset,
                 limit, count + 1, h)
  ELSE IF atom.type \in BytesKinds
  THEN ParseLoop(pn_data_put_var(d, atom.type,
                                 [size |-> atom.size, start |-> atom.start], h).d,
                 atoms, i + 1, offset, limit, count + 1, h)
  ELSE IF atom.type \in {"PN_LIST", "PN_MAP"}
  THEN ParseChildren(
         ParseLoop(pn_data_enter(IF atom.type = "PN_LIST" THEN pn_data_put_list(d)
                                 ELSE pn_data_put_map(d)),
                   atoms, i + 1, i + 1, atom.count, 0, h),
         atoms, i, offset, limit, count, h)
  ELSE IF atom.type = "PN_ARRAY"
  THEN ParseArray(pn_data_put_array(d, AtomType(atoms, i + 1) = PN_DESCRIPTOR, PN_0),
                  AtomType(atoms, i + 1) = PN_DESCRIPTOR,
                  atoms, atom.count, i, offset, limit, count, h)
  ELSE IF atom.type = PN_DESCRIPTOR
  THEN ParseChildren(
         ParseLoop(pn_data_enter(pn_data_put_described(d)), atoms, i + 1, i + 1, 2, 0, h),
         atoms, i, offset, limit, count, h)
  ELSE ParseLoop(d, atoms, i + 1, offset, limit, count, h)

\* The for loop of pn_data_parse_atoms, at index i with count elements put.
\* r.n is the value returned (i - offset) when r.err is "OK".
ParseLoop(d, atoms, i, offset, limit, count, h) ==
  IF i >= Len(atoms) \/ count = limit THEN [d |-> d, err |-> "OK", n |-> i - offset]
  ELSE ParseAtom(d, atoms, atoms[i + 1], i, offset, limit, count, h)

pn_data_parse_atoms(d, atoms, offset, limit, h) ==
  ParseLoop(d, atoms, offset, offset, limit, 0, h)

AtomsInitial == 64

\* pn_data_decode: r.d the tree, r.err "OK" or the error returned, r.n the
\* byte count returned, r.oob whether a byte outside the input was loaded,
\* r.perr what pn_data_parse_atoms returned (dropped by pn_data_decode),
\* r.tries the number of calls of pn_decode_one
\* as DecodeParsed, but returning the size of the whole input
DecodeWhole(s, p, tries) ==
  [d |-> p.d, err |-> "OK", n |-> s.pos + s.size, oob |-> s.oob, perr |-> p.err,
   atoms |-> s.atoms, tries |-> tries]

DecodeParsed(s, p, tries) ==
  [d |-> p.d, err |-> "OK", n |-> s.pos, oob |-> s.oob, perr |-> p.err,
   atoms |-> s.atoms, tries |-> tries]

RECURSIVE DecodeTry(_, _, _, _, _, _)
DecodeOne(d, inp, asize, h, junk, tries, s) ==
  IF s.err = "OK"
  THEN DecodeParsed(s, pn_data_parse_atoms(d, s.atoms, 0, 0 - 1, h), tries)
  ELSE IF s.err = "PN_OVERFLOW"
  THEN DecodeTry(d, inp, 2 * asize, h, junk, tries + 1)
  ELSE [d |-> d, err |-> s.err, n |-> 0, oob |-> s.oob, perr |-> "OK",
        atoms |-> s.atoms, tries |-> tries]

DecodeTry(d, inp, asize, h, junk, tries) ==
  DecodeOne(d, inp, asize, h, junk, tries, pn_decode_one(inp, asize, junk))

pn_data_decode(d, inp, h, junk) == DecodeTry(d, inp, AtomsInitial, h, junk, 1)

(***************************************************************************)
(* copy / append / appendn                                                 *)
(***************************************************************************)
\* pn_data_get_binary / get_string / get_symbol of the current node of src,
\* as a pn_bytes_t the destination tree can read: the pointer is into the
\* interned store of src
pn_data_get_bytes(src) ==
  LET atom == src.nodes[src.current].atom
      live == atom.start.kind = "store" /\ atom.start.base = src.buf.base
              /\ atom.start.off + atom.size <= Len(src.buf.bytes)
  IN [size |-> atom.size,
      start |-> IF atom.start.kind = "ext" THEN atom.start
                ELSE IF live THEN ExtPtr(src.buf.bytes, atom.start.off)
                ELSE NullPtr]

RECURSIVE AppendLoop(_, _, _, _, _, _, _)

\* break out of the outer loop: pn_data_restore(src, point); return 0
AppendDone(d, src, point) ==
  [d |-> d, src |-> pn_data_restore(src, point), err |-> "OK"]

\* if (level == 0) count++
Counted(level, count) == IF level = 0 THEN count + 1 ELSE count

AppendPutBytes(r, src, limit, level, count, point, h) ==
  IF r.err # "OK"
  THEN [d |-> r.d, src |-> pn_data_restore(src, point), err |-> r.err]
  ELSE AppendLoop(r.d, src, limit, level, count, point, h)

\* the switch on the type of the current node of src
AppendPut(d, src, type, limit, level, count, point, h) ==
  IF type \in FixedKinds \cup {"PN_NULL"}
  THEN AppendLoop(pn_data_put_fixed(d, type, src.nodes[src.current].atom.val), src,
                  limit, level, Counted(level, count), point, h)
  ELSE IF type \in BytesKinds
  THEN AppendPutBytes(pn_data_put_var(d, type, pn_data_get_bytes(src), h), src,
                      limit, level, Counted(level, count), point, h)
  ELSE IF type \in CompoundKinds \cup {PN_DESCRIPTOR}
  THEN AppendLoop(
         pn_data_enter(
           CASE type = PN_DESCRIPTOR -> pn_data_put_described(d)
             [] type = "PN_ARRAY" ->
                  pn_data_put_array(d, src.nodes[src.current].described,
                                    src.nodes[src.current].type)
             [] type = "PN_LIST" -> pn_data_put_list(d)
             [] type = "PN_MAP" -> pn_data_put_map(d)),
         pn_data_enter(src), limit, level + 1, Counted(level, count), point, h)
  ELSE AppendLoop(d, src, limit, level, count, point, h)

\* src is on the next node to copy
AppendNode(d, src, limit, level, count, point, h) ==
  IF level = 0 /\ count = limit THEN AppendDone(d, src, point)
  ELSE AppendPut(d, src, pn_data_type(src), limit, level, count, point, h)

\* the second pn_data_next of the inner loop, after at most one level was left
AppendUp(d, src, limit, level, count, point, h) ==
  IF pn_data_next_ok(src)
  THEN AppendNode(d, pn_data_next(src), limit, level, count, point, h)
  ELSE AppendDone(d, src, point)

\* One turn of the while (true) loop of pn_data_appendn.
AppendLoop(d, src, limit, level, count, point, h) ==
  IF pn_data_next_ok(src)
  THEN AppendNode(d, pn_data_next(src), limit, level, count, point, h)
  ELSE IF level > 0
  THEN AppendUp(pn_data_exit(d), pn_data_exit(src), limit, level - 1, count, point, h)
  ELSE AppendDone(d, src, point)

pn_data_appendn(d, src, limit, h) ==
  AppendLoop(d, pn_data_rewind(src), limit, 0, 0, pn_data_point(src), h)

pn_data_append(d, src, h) == pn_data_appendn(d, src, 0 - 1, h)

CopyRewind(r) == [r EXCEPT !.d = pn_data_rewind(r.d)]

pn_data_copy(d, src, h) == CopyRewind(pn_data_append(pn_data_clear(d), src, h))

(***************************************************************************)
(* The format interpreter: fill.                                           *)
(*                                                                         *)
(* A format is a sequence of one-character strings, the va_list a sequence *)
(* of arguments.  An argument is a record: tag names the C type the caller *)
(* passed ("val": an integer or floating value, as the big-endian bytes of *)
(* the kind the code puts; "bytes": a string or a size and a pointer, null *)
(* when the pointer is NULL; "type": a pn_type_t; "pred": the int of '?';  *)
(* "rep": the count and the symbols of the repetition code; "tree": a      *)
(* pointer to a pn_data_t).                                                *)
(***************************************************************************)
Arg(tag) ==
  [tag |-> tag, val |-> << >>, null |-> FALSE, type |-> PN_0, pred |-> FALSE,
   syms |-> << >>]
ValArg(val) == [Arg("val") EXCEPT !.val = val]
BytesArg(content) == [Arg("bytes") EXCEPT !.val = content]
NullArg == [Arg("bytes") EXCEPT !.null = TRUE]
TypeArg(type) == [Arg("type") EXCEPT !.type = type]
PredArg(pred) == [Arg("pred") EXCEPT !.pred = pred]
RepArg(syms) == [Arg("rep") EXCEPT !.syms = syms]
TreeArg(null) == [Arg("tree") EXCEPT !.null = null]

\* the kind put by the codes that take one value argument
FillKind ==
  [o |-> "PN_BOOL", B |-> "PN_UBYTE", b |-> "PN_BYTE", H |-> "PN_USHORT",
   h |-> "PN_SHORT", I |-> "PN_UINT", i |-> "PN_INT", L |-> "PN_ULONG",
   l |-> "PN_LONG", t |-> "PN_TIMESTAMP", f |-> "PN_FLOAT", d |-> "PN_DOUBLE"]

\* the tag of the argument va_arg reads for a code ("none": no argument)
FillArgTag(code) ==
  CASE code \in DOMAIN FillKind -> "val"
    [] code \in {"z", "S", "s"} -> "bytes"
    [] code = "T" -> "type"
    [] code = "?" -> "pred"
    [] code = "*" -> "rep"
    [] code = "C" -> "tree"
    [] OTHER -> "none"

\* current->down = 0; current->children = 0
ClearCurrent(x) ==
  [x EXCEPT !.nodes[x.current].down = 0, !.nodes[x.current].children = 0]

\* the loop that follows the switch: leave every completed descriptor and
\* every null that absorbed an element
RECURSIVE FillWalkUp(_)
FillWalkUp(d) ==
  IF d.parent = 0 THEN d
  ELSE IF d.nodes[d.parent].atom.type = PN_DESCRIPTOR /\ d.nodes[d.parent].children = 2
  THEN FillWalkUp(pn_data_exit(d))
  ELSE IF d.nodes[d.parent].atom.type = "PN_NULL" /\ d.nodes[d.parent].children = 1
  THEN FillWalkUp(ClearCurrent(pn_data_exit(d)))
  ELSE d

\* pn_data_fill(data, "s", sym) for each of the symbols of '*'
RECURSIVE FillSyms(_, _, _)
FillSymsAfter(r, syms, h) ==
  IF r.err # "OK" THEN r ELSE FillSyms(FillWalkUp(r.d), Tail(syms), h)

FillSyms(d, syms, h) ==
  IF syms = << >> THEN [d |-> d, err |-> "OK"]
  ELSE FillSymsAfter(pn_data_put_var(d, "PN_SYMBOL", pn_bytes(Head(syms)), h), syms, h)

\* f = [d, src, err, ret, adv]: the tree, the tree a 'C' argument points to,
\* the local err, whether pn_data_vfill has returned (err is then the value
\* returned), and how many more characters the code consumed.
FillPut(f, d) == [f EXCEPT !.d = d, !.err = "OK", !.adv = 0]
FillKeep(f, d) == [f EXCEPT !.d = d, !.adv = 0]
FillReturn(f, e) == [f EXCEPT !.err = e, !.ret = TRUE, !.adv = 0]

\* err = pn_data_put_string(...) and the like
FillPutVar(f, r) == [f EXCEPT !.d = r.d, !.err = r.err, !.adv = 0]

\* r: what the calls of pn_data_fill for the symbols of '*' left
FillRep(f, r, none) ==
  IF r.err # "OK" THEN [f EXCEPT !.d = r.d, !.err = r.err, !.ret = TRUE, !.adv = 0]
  ELSE IF none THEN [f EXCEPT !.adv = 1]
  ELSE [f EXCEPT !.d = r.d, !.err = "OK", !.adv = 1]

\* r: what pn_data_appendn(data, src, 1) returned
FillTree(f, r) ==
  IF r.err # "OK"
  THEN [f EXCEPT !.d = r.d, !.src = r.src, !.err = r.err, !.ret = TRUE, !.adv = 0]
  ELSE [f EXCEPT !.d = r.d, !.src = r.src, !.err = "OK", !.adv = 0]

\* The switch of pn_data_vfill on the code at fmt[-1], with prev = fmt[-2],
\* a1 = fmt[0], a2 = fmt[1] (fmt as the loop leaves it after
\* code = *(fmt++)) and arg the argument(s) va_arg yields.
VFillSwitch(f, prev, code, a1, a2, arg, h) ==
  CASE FillArgTag(code) # "none" /\ arg.tag # FillArgTag(code) -> FillReturn(f, "UB")
    [] code = "n" -> FillPut(f, pn_data_put_null(f.d))
    [] code \in DOMAIN FillKind ->
         FillPut(f, pn_data_put_fixed(f.d, FillKind[code], arg.val))
    [] code \in {"z", "S", "s"} ->
         IF arg.null THEN FillPut(f, pn_data_put_null(f.d))
         ELSE FillPutVar(f, pn_data_put_var(f.d,
                              CASE code = "z" -> "PN_BINARY"
                                [] code = "S" -> "PN_STRING"
                                [] code = "s" -> "PN_SYMBOL",
                              pn_bytes(arg.val), h))
    [] code = "D" -> FillPut(f, pn_data_enter(pn_data_put_described(f.d)))
    [] code = "T" ->
         IF f.d.parent = 0 THEN FillReturn(f, "UB")
         ELSE IF f.d.nodes[f.d.parent].atom.type = "PN_ARRAY"
         THEN FillKeep(f, [f.d EXCEPT !.nodes[f.d.parent].type = arg.type])
         ELSE FillReturn(f, "PN_ERR")
    [] code = "@" ->
         IF a2 = "D" /\ a1 = "NUL" THEN FillReturn(f, "UB")
         ELSE [FillPut(f, pn_data_enter(pn_data_put_array(f.d, a2 = "D", PN_0)))
                 EXCEPT !.adv = IF a2 = "D" THEN 1 ELSE 0]
    [] code = "[" ->
         IF prev # "T" THEN FillPut(f, pn_data_enter(pn_data_put_list(f.d)))
         ELSE FillKeep(f, f.d)
    [] code = "{" -> FillPut(f, pn_data_enter(pn_data_put_map(f.d)))
    [] code \in {"}", "]"} ->
         IF ~pn_data_exit_ok(f.d) THEN FillReturn(f, "PN_ERR")
         ELSE FillKeep(f, pn_data_exit(f.d))
    [] code = "?" ->
         IF ~arg.pred THEN FillPut(f, pn_data_enter(pn_data_put_null(f.d)))
         ELSE FillKeep(f, f.d)
    [] code = "*" ->
         IF a1 = "s" THEN FillRep(f, FillSyms(f.d, arg.syms, h), arg.syms = << >>)
         ELSE FillReturn(f, "PN_ARG_ERR")
    [] code = "C" ->
         IF ~arg.null /\ pn_data_size(f.src) > 0
         THEN FillTree(f, pn_data_appendn(f.d, f.src, 1, h))
         ELSE FillPut(f, pn_data_put_null(f.d))
    [] OTHER -> FillReturn(f, "PN_ARG_ERR")

\* if (err) return err; then the loop that leaves completed parents
VFillAfter(sw) ==
  IF sw.ret THEN sw
  ELSE IF sw.err # "OK" THEN [sw EXCEPT !.ret = TRUE]
  ELSE [sw EXCEPT !.d = FillWalkUp(sw.d)]

\* one turn of the while (*fmt) loop
VFillCode(f, prev, code, a1, a2, arg, h) ==
  VFillAfter(VFillSwitch(f, prev, code, a1, a2, arg, h))

\* the character at 1-based position k of a format: its terminator after the
\* last, and beyond that whatever follows it in memory
CharAt(fmt, k, h) ==
  IF k = 0 THEN h.before
  ELSE IF k <= Len(fmt) THEN fmt[k]
  ELSE IF k = Len(fmt) + 1 THEN "NUL" ELSE h.after

\* whether va_arg is called for the code at position k
Takes(fmt, k, args) == FillArgTag(fmt[k]) # "none" /\ args # << >>

\* the while (*fmt) loop from position k
RECURSIVE VFillLoop(_, _, _, _, _)
VFillNext(g, fmt, k, args, h) == VFillLoop(g, fmt, k + 1 + g.adv, args, h)

VFillLoop(f, fmt, k, args, h) ==
  IF f.ret THEN f
  ELSE IF k > Len(fmt) THEN [f EXCEPT !.err = "OK", !.ret = TRUE]
  ELSE VFillNext(VFillCode(f, CharAt(fmt, k - 1, h), fmt[k], CharAt(fmt, k + 1, h),
                           CharAt(fmt, k + 2, h),
                           IF Takes(fmt, k, args) THEN Head(args) ELSE Arg("none"), h),
                 fmt, k, IF Takes(fmt, k, args) THEN Tail(args) ELSE args, h)

\* pn_data_vfill / pn_data_fill: r.d the tree, r.src the tree of its 'C'
\* arguments, r.err the value returned
pn_data_vfill(d, src, fmt, args, h) ==
  VFillLoop([d |-> d, src |-> src, err |-> h.err0, ret |-> FALSE, adv |-> 0],
            fmt, 1, args, h)

(***************************************************************************)
(* Scan.  v is the state of pn_data_vscan between two codes: the tree d,   *)
(* the tree dst its 'C' arguments point to, the locals at, level,          *)
(* count_level and resume_count, whether a '?' output awaits its value     *)
(* (scanarg), the local scanned of the turn, and outs, the values stored   *)
(* through the output arguments in order, each with the code that stored   *)
(* it.  The caller passes one valid pointer per code that takes one.       *)
(***************************************************************************)
\* the kind each value code matches
ScanKind ==
  [n |-> "PN_NULL", o |-> "PN_BOOL", B |-> "PN_UBYTE", b |-> "PN_BYTE",
   H |-> "PN_USHORT", h |-> "PN_SHORT", I |-> "PN_UINT", i |-> "PN_INT",
   c |-> "PN_CHAR", L |-> "PN_ULONG", l |-> "PN_LONG", t |-> "PN_TIMESTAMP",
   f |-> "PN_FLOAT", d |-> "PN_DOUBLE", z |-> "PN_BINARY", S |-> "PN_STRING",
   s |-> "PN_SYMBOL"]

\* found and *type = pn_data_type(data), on the node e is on
ScanFound(e) == [d |-> e, found |-> TRUE, type |-> pn_data_type(e)]

RECURSIVE pn_scan_next(_, _)
pn_scan_next(d, suspend) ==
  IF suspend THEN [d |-> d, found |-> FALSE, type |-> "unset"]
  ELSE IF pn_data_next_ok(d) THEN ScanFound(pn_data_next(d))
  ELSE IF d.parent # 0 /\ d.nodes[d.parent].atom.type = PN_DESCRIPTOR
  THEN pn_scan_next(pn_data_exit(d), suspend)
  ELSE [d |-> d, found |-> FALSE, type |-> "-1"]

\* if (resume_count && level == count_level) resume_count--
ScanResume(v) ==
  IF v.resume_count # 0 /\ v.level = v.count_level
  THEN [v EXCEPT !.resume_count = @ - 1]
  ELSE v

\* a value stored through the output argument of code
ScanStore(v, code, val) ==
  [v EXCEPT !.outs = Append(@, [code |-> code, val |-> val])]

\* the value a code reads from the current node of d
ScanValue(d, code) ==
  IF ScanKind[code] \in BytesKinds
  THEN Deref(d, d.nodes[d.current].atom.start, d.nodes[d.current].atom.size)
  ELSE d.nodes[d.current].atom.val

\* the value a code stores when it does not match
ScanZero(code) ==
  IF ScanKind[code] \in BytesKinds THEN << >> ELSE Rep(0, Width(ScanKind[code]))

\* the value codes; r: what pn_scan_next returned
ScanLeaf(v, code, r) ==
  ScanResume(
    IF code = "n"
    THEN [v EXCEPT !.d = r.d, !.scanned = r.found /\ r.type = "PN_NULL"]
    ELSE IF r.found /\ r.type = ScanKind[code]
    THEN ScanStore([v EXCEPT !.d = r.d, !.scanned = TRUE], code, ScanValue(r.d, code))
    ELSE ScanStore([v EXCEPT !.d = r.d, !.scanned = FALSE], code, ScanZero(code)))

\* the code . matches a node of any kind
ScanAny(v, r) == ScanResume([v EXCEPT !.d = r.d, !.scanned = r.found])

\* D and @: enter on a match, else suspend for three codes
ScanEnter(v, r, type, suspend) ==
  ScanResume(
    IF r.found /\ r.type = type
    THEN [v EXCEPT !.d = pn_data_enter(r.d), !.scanned = TRUE,
                   !.at = IF type = "PN_ARRAY" THEN TRUE ELSE @]
    ELSE IF ~suspend
    THEN [v EXCEPT !.d = r.d, !.scanned = FALSE,
                   !.resume_count = 3, !.count_level = v.level]
    ELSE [v EXCEPT !.d = r.d, !.scanned = FALSE])

\* [ when at is false
ScanList(v, r, suspend) ==
  IF r.found /\ r.type = "PN_LIST"
  THEN [v EXCEPT !.d = pn_data_enter(r.d), !.scanned = TRUE, !.level = @ + 1]
  ELSE IF ~suspend
  THEN [v EXCEPT !.d = r.d, !.scanned = FALSE, !.level = @ + 1,
                 !.resume_count = 1, !.count_level = v.level]
  ELSE [v EXCEPT !.d = r.d, !.scanned = FALSE, !.level = @ + 1]

\* {: suspends for one code only when already suspended
ScanMap(v, r) ==
  IF r.found /\ r.type = "PN_MAP"
  THEN [v EXCEPT !.d = pn_data_enter(r.d), !.scanned = TRUE, !.level = @ + 1]
  ELSE IF v.resume_count # 0
  THEN [v EXCEPT !.d = r.d, !.scanned = FALSE, !.level = @ + 1,
                 !.resume_count = 1, !.count_level = v.level]
  ELSE [v EXCEPT !.d = r.d, !.scanned = FALSE, !.level = @ + 1]

ScanReturn(v, e) == [v EXCEPT !.err = e, !.ret = TRUE]

\* ] and }: w is v after level--; scanned is not assigned, garbage is what
\* the local holds
ScanExit(w, suspend, garbage) ==
  IF ~suspend /\ ~pn_data_exit_ok(w.d) THEN ScanReturn(w, "PN_ERR")
  ELSE ScanResume([w EXCEPT !.d = IF suspend THEN @ ELSE pn_data_exit(@),
                            !.scanned = garbage])

\* C after pn_data_appendn(dst, data, 1) between narrow and widen returned r;
\* old: the size of dst before
ScanAppended(v, r, old) ==
  IF r.err # "OK"
  THEN ScanReturn([v EXCEPT !.d = pn_data_widen(r.src), !.dst = r.d], r.err)
  ELSE [v EXCEPT !.d = pn_data_next(pn_data_widen(r.src)), !.dst = r.d,
                 !.scanned = pn_data_size(r.d) > old]

ScanTree(v, suspend, h) ==
  ScanResume(
    IF suspend THEN [v EXCEPT !.scanned = FALSE]
    ELSE IF pn_data_peek(v.d) # 0
            /\ v.d.nodes[pn_data_peek(v.d)].atom.type # "PN_NULL"
    THEN ScanAppended(v, pn_data_appendn(v.dst, pn_data_narrow(v.d), 1, h),
                      pn_data_size(v.dst))
    ELSE [v EXCEPT !.d = pn_data_next(@), !.scanned = FALSE])

\* The switch of pn_data_vscan on code, with a1 = *fmt after code = *(fmt++).
ScanSwitch(v, code, a1, suspend, garbage, h) ==
  CASE code \in DOMAIN ScanKind -> ScanLeaf(v, code, pn_scan_next(v.d, suspend))
    [] code = "D" -> ScanEnter(v, pn_scan_next(v.d, suspend), PN_DESCRIPTOR, suspend)
    [] code = "@" -> ScanEnter(v, pn_scan_next(v.d, suspend), "PN_ARRAY", suspend)
    [] code = "[" ->
         IF v.at THEN [v EXCEPT !.scanned = TRUE, !.at = FALSE, !.level = @ + 1]
         ELSE ScanList(v, pn_scan_next(v.d, suspend), suspend)
    [] code = "{" -> ScanMap(v, pn_scan_next(v.d, suspend))
    [] code \in {"]", "}"} ->
         ScanExit([v EXCEPT !.level = @ - 1], suspend, garbage)
    [] code = "." -> ScanAny(v, pn_scan_next(v.d, suspend))
    [] code = "?" ->
         IF a1 \in {"NUL", "?"} THEN ScanReturn(v, "PN_ARG_ERR")
         ELSE [v EXCEPT !.scanarg = TRUE]
    [] code = "C" -> ScanTree(v, suspend, h)
    [] OTHER -> ScanReturn(v, "PN_ARG_ERR")

\* if (scanarg && code != '?') { *scanarg = scanned; scanarg = NULL; }
ScanArg(w, code) ==
  IF ~w.ret /\ w.scanarg /\ code # "?"
  THEN ScanStore([w EXCEPT !.scanarg = FALSE], "?", w.scanned)
  ELSE w

\* one turn of the while (*fmt) loop
ScanCode(v, code, a1, garbage, h) ==
  ScanArg(ScanSwitch(v, code, a1, v.resume_count > 0, garbage, h), code)

RECURSIVE ScanLoop(_, _, _, _, _)
ScanLoop(v, fmt, k, garbage, h) ==
  IF v.ret THEN v
  ELSE IF k > Len(fmt) THEN [v EXCEPT !.err = "OK", !.ret = TRUE]
  ELSE ScanLoop(ScanCode(v, fmt[k], CharAt(fmt, k + 1, h), garbage, h),
                fmt, k + 1, garbage, h)

\* pn_data_vscan / pn_data_scan: r.d the tree, r.dst the tree of its 'C'
\* arguments, r.outs the values stored, r.err the value returned
pn_data_vscan(d, dst, fmt, garbage, h) ==
  ScanLoop([d |-> pn_data_rewind(d), dst |-> dst, at |-> FALSE, level |-> 0,
            count_level |-> 0 - 1, resume_count |-> 0, scanarg |-> FALSE,
            scanned |-> garbage, outs |-> << >>, err |-> "OK", ret |-> FALSE],
           fmt, 1, garbage, h)

(***************************************************************************)
(* State.  data and src are two trees (src is the source of copy, append   *)
(* and of the 'C' code), point a saved pn_point_t, out the outcome of the  *)
(* last codec call, shadow the bytes the caller passed for each interned   *)
(* node of data.                                                           *)
(***************************************************************************)
VARIABLES data, src, point, out, shadow
vars == <<data, src, point, out, shadow>>

NoOut == [op |-> "none"]

\* what the allocator and the memory around a format string may do: whether
\* realloc relocates, whether an allocation of the interned store fails, the
\* byte before a format string and the byte after its terminator, and the
\* value the uninitialised local err of pn_data_vfill starts with
Envs ==
  [moves : BOOLEAN, fails : {FALSE}, before : {"NUL", "T"}, after : {"NUL"},
   err0 : {"OK", "JUNK"}]
Calm == [moves |-> FALSE, fails |-> FALSE, before |-> "NUL", after |-> "NUL",
         err0 |-> "OK"]

\* the environments that differ only in what realloc does
Movers == {[Calm EXCEPT !.moves = m] : m \in BOOLEAN}

InitialCapacity == 2

(***************************************************************************)
(* SpecTree: the public tree operations applied in any order.              *)
(***************************************************************************)
MaxTreeNodes == 3
MaxTreeExtras == 2
TreeCapacity == 16

\* a tree built by one fill, the source of the append and copy actions
TreeSrc ==
  pn_data_rewind(
    pn_data_vfill(pn_data(TreeCapacity), pn_data(0), <<"[", "n", "]", "n">>,
                  << >>, Calm).d)

TreeFormats ==
  { [fmt |-> <<"D", "n", "n">>, args |-> << >>],
    [fmt |-> <<"?", "[", "n", "]">>, args |-> <<PredArg(FALSE)>>],
    [fmt |-> <<"?", "D", "n", "n">>, args |-> <<PredArg(TRUE)>>],
    [fmt |-> <<"@", "T", "[", "n", "]">>, args |-> <<TypeArg("PN_NULL")>>],
    [fmt |-> <<"{", "C", "}">>, args |-> <<TreeArg(FALSE)>>] }

TreeWires ==
  { <<PNE_LIST8, 2, 1, PNE_NULL>>,
    <<PNE_DESCRIPTOR, PNE_NULL, PNE_NULL>>,
    <<PNE_ARRAY8, 2, 1, PNE_NULL>> }

\* what surrounds the format string and what err starts with matter to the
\* codes that read fmt[-2] or leave err unassigned
TreeEnvs ==
  {Calm, [Calm EXCEPT !.before = "T"], [Calm EXCEPT !.err0 = "JUNK"]}

TreeInit ==
  /\ data = pn_data(TreeCapacity)
  /\ src = TreeSrc
  /\ point = [parent |-> 0, current |-> 0]
  /\ out = NoOut
  /\ shadow = << >>

\* the tree becomes d, within the bounds on the nodes and on the extras
\* counter
Becomes(d) == d.size <= MaxTreeNodes /\ d.extras <= MaxTreeExtras /\ data' = d

TreePutNull == Becomes(pn_data_put_null(data)) /\ UNCHANGED <<src, point, out, shadow>>
TreePutList == Becomes(pn_data_put_list(data)) /\ UNCHANGED <<src, point, out, shadow>>
TreePutDescribed ==
  Becomes(pn_data_put_described(data)) /\ UNCHANGED <<src, point, out, shadow>>
TreeEnter ==
  pn_data_enter_ok(data) /\ data' = pn_data_enter(data) /\ UNCHANGED <<src, point, out, shadow>>
TreeExit ==
  pn_data_exit_ok(data) /\ data' = pn_data_exit(data) /\ UNCHANGED <<src, point, out, shadow>>
TreeNext ==
  pn_data_next_ok(data) /\ data' = pn_data_next(data) /\ UNCHANGED <<src, point, out, shadow>>
TreePrev ==
  pn_data_prev_ok(data) /\ data' = pn_data_prev(data) /\ UNCHANGED <<src, point, out, shadow>>
TreeRewind == data' = pn_data_rewind(data) /\ UNCHANGED <<src, point, out, shadow>>
TreeNarrow == data' = pn_data_narrow(data) /\ UNCHANGED <<src, point, out, shadow>>
TreeWiden == data' = pn_data_widen(data) /\ UNCHANGED <<src, point, out, shadow>>
\* pn_point_t is a plain struct the caller keeps, possibly from before the
\* tree was cleared or rebuilt: a point taken at the top level, before the
\* first child of a node, or on the newest node
TreePoints ==
  {p \in [parent : 0..MaxTreeNodes, current : 0..MaxTreeNodes] :
     p.parent = 0 \/ p.current = 0 \/ p.current = MaxTreeNodes}

TreeRestore ==
  /\ \E p \in TreePoints :
       /\ pn_data_restore_ok(data, p)
       /\ data' = pn_data_restore(data, p)
  /\ UNCHANGED <<src, point, out, shadow>>
TreeClear == data' = pn_data_clear(data) /\ UNCHANGED <<src, point, out, shadow>>
TreeFill ==
  /\ \E f \in TreeFormats, h \in TreeEnvs :
       LET r == pn_data_vfill(data, src, f.fmt, f.args, h)
       IN Becomes(r.d) /\ src' = r.src
  /\ UNCHANGED <<point, out, shadow>>
TreeAppend ==
  /\ \E limit \in {0 - 1, 1}, h \in {Calm} :
       LET r == pn_data_appendn(data, src, limit, h)
       IN Becomes(r.d) /\ src' = r.src
  /\ UNCHANGED <<point, out, shadow>>
TreeCopy ==
  /\ \E h \in {Calm} :
       LET r == pn_data_copy(data, src, h)
       IN Becomes(r.d) /\ src' = r.src
  /\ UNCHANGED <<point, out, shadow>>
TreeDecode ==
  /\ \E w \in TreeWires, h \in Movers : Becomes(pn_data_decode(data, w, h, 0).d)
  /\ UNCHANGED <<src, point, out, shadow>>

\* scan formats; the tree a C code appends to is a scratch tree of the caller
TreeScans ==
  { <<"D", "n", "n">>, <<"[", "n", "]">>, <<"D", ".", "[", "C", "]">>,
    <<"@", "[", "n", "]">>, <<"{", "n", "}">>, <<"?", "n", "]">>, <<"C", "C">> }

TreeScan ==
  /\ \E fmt \in TreeScans :
       data' = pn_data_vscan(data, pn_data(0), fmt, FALSE, Calm).d
  /\ UNCHANGED <<src, point, out, shadow>>

TreeNext_ ==
  \/ TreePutNull \/ TreePutList
  \/ TreePutDescribed \/ TreeEnter \/ TreeExit \/ TreeNext \/ TreePrev
  \/ TreeRewind \/ TreeNarrow \/ TreeWiden \/ TreeRestore
  \/ TreeClear \/ TreeFill \/ TreeScan \/ TreeAppend \/ TreeCopy \/ TreeDecode

SpecTree == TreeInit /\ [][TreeNext_]_vars

(***************************************************************************)
(* SpecLinks: building, walking, saving the cursor with pn_data_point and  *)
(* restoring it.                                                           *)
(***************************************************************************)
MaxLinkNodes == 4

LinksInit ==
  /\ data = pn_data(TreeCapacity)
  /\ src = pn_data(0)
  /\ point = [parent |-> 0, current |-> 0]
  /\ out = NoOut
  /\ shadow = << >>

Grows(d) == d.size <= MaxLinkNodes /\ data' = d

LinksPutNull == Grows(pn_data_put_null(data)) /\ UNCHANGED <<src, point, out, shadow>>
LinksPutList == Grows(pn_data_put_list(data)) /\ UNCHANGED <<src, point, out, shadow>>
LinksEnter ==
  pn_data_enter_ok(data) /\ data' = pn_data_enter(data) /\ UNCHANGED <<src, point, out, shadow>>
LinksExit ==
  pn_data_exit_ok(data) /\ data' = pn_data_exit(data) /\ UNCHANGED <<src, point, out, shadow>>
LinksNext ==
  pn_data_next_ok(data) /\ data' = pn_data_next(data) /\ UNCHANGED <<src, point, out, shadow>>
LinksPrev ==
  pn_data_prev_ok(data) /\ data' = pn_data_prev(data) /\ UNCHANGED <<src, point, out, shadow>>
LinksRewind == data' = pn_data_rewind(data) /\ UNCHANGED <<src, point, out, shadow>>
LinksPoint == point' = pn_data_point(data) /\ UNCHANGED <<data, src, out, shadow>>
LinksRestore ==
  /\ pn_data_restore_ok(data, point)
  /\ data' = pn_data_restore(data, point)
  /\ UNCHANGED <<src, point, out, shadow>>

LinksNext_ ==
  \/ LinksPutNull \/ LinksPutList \/ LinksEnter \/ LinksExit \/ LinksNext
  \/ LinksPrev \/ LinksRewind \/ LinksPoint \/ LinksRestore

SpecLinks == LinksInit /\ [][LinksNext_]_vars

\* the nodes reachable from the top level through first-child and
\* next-sibling links
RECURSIVE Closure(_, _)
Closure(d, S) ==
  LET T == S \cup {d.nodes[n].next : n \in S} \cup {d.nodes[n].down : n \in S}
      U == T \ {0}
  IN IF U = S THEN S ELSE Closure(d, U)

Reachable(d) == IF d.size = 0 THEN {} ELSE Closure(d, {1})

\* the length of the sibling list that starts at node n
RECURSIVE ChainLen(_, _, _)
ChainLen(d, n, fuel) ==
  IF n = 0 \/ fuel = 0 THEN 0 ELSE 1 + ChainLen(d, d.nodes[n].next, fuel - 1)

CursorValid(d) ==
  /\ d.current \in 0..d.size
  /\ d.current # 0 => d.nodes[d.current].parent = d.parent

Linked(d) ==
  \A n \in Reachable(d) :
    LET node == d.nodes[n]
    IN /\ node.next # 0 => /\ d.nodes[node.next].prev = n
                           /\ d.nodes[node.next].parent = node.parent
       /\ node.down # 0 => d.nodes[node.down].parent = n
       /\ node.children = ChainLen(d, node.down, d.size + 1)

\* C2: after any sequence of tree operations every node reachable from the
\* top level has consistent parent and sibling links and a child count equal
\* to the length of its list of children.
C2_LinksConsistent == Linked(data)

\* C3: the cursor's current index is 0 or the index of an existing node whose
\* parent field is the cursor's parent index, in both trees.
C3_CursorValid == CursorValid(data) /\ CursorValid(src)

\* the cursor is on a node below the top level of a narrowed tree, and an
\* append has left the cursor of its source on a node
C3_Witness ==
  /\ data.current # 0 /\ data.parent # 0
  /\ data.base_parent # 0 /\ data.base_current # data.current
  /\ data.size = MaxTreeNodes
  /\ src.current # 0
(***************************************************************************)
(* The structure of a tree: its nodes in pre-order, each with its depth,   *)
(* kind, payload, child count and, for an array, its described flag and    *)
(* element kind.                                                           *)
(***************************************************************************)
Entry(d, n, depth) ==
  [depth |-> depth,
   type |-> d.nodes[n].atom.type,
   val |-> IF d.nodes[n].atom.type \in FixedKinds THEN d.nodes[n].atom.val
           ELSE IF d.nodes[n].atom.type \in BytesKinds
           THEN Deref(d, d.nodes[n].atom.start, d.nodes[n].atom.size)
           ELSE << >>,
   children |-> d.nodes[n].children,
   described |-> d.nodes[n].atom.type = "PN_ARRAY" /\ d.nodes[n].described,
   elem |-> IF d.nodes[n].atom.type = "PN_ARRAY" THEN d.nodes[n].type ELSE PN_0]

\* node n, its subtree and its following siblings with theirs
RECURSIVE Walk(_, _, _)
Walk(d, n, depth) ==
  IF n = 0 THEN << >>
  ELSE <<Entry(d, n, depth)>> \o Walk(d, d.nodes[n].down, depth + 1)
                              \o Walk(d, d.nodes[n].next, depth)

\* the first k top-level values from node n on, each with its subtree
RECURSIVE WalkTop(_, _, _)
WalkTop(d, n, k) ==
  IF n = 0 \/ k = 0 THEN << >>
  ELSE <<Entry(d, n, 0)>> \o Walk(d, d.nodes[n].down, 1)
                          \o WalkTop(d, d.nodes[n].next, k - 1)

\* the first top-level node, if any
Top(d) == IF d.size = 0 THEN 0 ELSE 1

Shape(d) == Walk(d, Top(d), 0)

FirstValues(d, k) == WalkTop(d, Top(d), k)

(***************************************************************************)
(* Building one well-formed top-level value in data, a node at a time: a   *)
(* descriptor gets two children, a map an even number, an array elements   *)
(* of its element kind after the descriptor of a described array.          *)
(***************************************************************************)
MaxCodecNodes == 3

GenLeaves ==
  { [type |-> "PN_NULL", val |-> << >>],
    [type |-> "PN_BOOL", val |-> <<1>>],
    [type |-> "PN_UINT", val |-> <<0, 0, 1, 44>>],
    [type |-> "PN_UINT", val |-> <<0, 0, 0, 5>>],
    [type |-> "PN_ULONG", val |-> <<0, 0, 0, 0, 0, 0, 0, 7>>],
    [type |-> "PN_INT", val |-> <<255, 255, 255, 249>>],
    [type |-> "PN_STRING", val |-> <<97, 98>>],
    [type |-> "PN_SYMBOL", val |-> <<115>>] }

GenArrayTypes == {"PN_UINT", "PN_SYMBOL"}

\* whether a node of kind type may be put at the cursor of d
GenCan(d, type) ==
  /\ d.size < MaxCodecNodes
  /\ IF d.parent = 0 THEN d.size = 0
     ELSE CASE d.nodes[d.parent].atom.type = PN_DESCRIPTOR ->
                 d.nodes[d.parent].children < 2
            [] d.nodes[d.parent].atom.type = "PN_ARRAY" ->
                 IF d.nodes[d.parent].described /\ d.nodes[d.parent].children = 0
                 THEN \* the descriptor: a leaf the encoder can read as an element
                      /\ type \in FixedKinds \cup BytesKinds
                      /\ d.nodes[d.parent].type \in BytesKinds => type \in BytesKinds
                 ELSE type = d.nodes[d.parent].type
            [] OTHER -> TRUE

\* whether the composite the cursor is in may be left
GenComplete(d) ==
  /\ d.parent # 0
  /\ CASE d.nodes[d.parent].atom.type = PN_DESCRIPTOR -> d.nodes[d.parent].children = 2
       [] d.nodes[d.parent].atom.type = "PN_MAP" -> d.nodes[d.parent].children % 2 = 0
       [] d.nodes[d.parent].atom.type = "PN_ARRAY" ->
            d.nodes[d.parent].described => d.nodes[d.parent].children >= 1
       [] OTHER -> TRUE

GenPut(d, leaf) ==
  IF leaf.type \in BytesKinds THEN pn_data_put_var(d, leaf.type, pn_bytes(leaf.val), Calm).d
  ELSE pn_data_put_fixed(d, leaf.type, leaf.val)

\* one whole value has been built
Whole(d) == d.size >= 1 /\ d.parent = 0

GenInit ==
  /\ data = pn_data(InitialCapacity)
  /\ src = pn_data(0)
  /\ point = [parent |-> 0, current |-> 0]
  /\ out = NoOut
  /\ shadow = << >>

GenLeaf ==
  /\ out = NoOut
  /\ \E leaf \in GenLeaves : GenCan(data, leaf.type) /\ data' = GenPut(data, leaf)
  /\ UNCHANGED <<src, point, out, shadow>>
GenList ==
  /\ out = NoOut /\ GenCan(data, "PN_LIST")
  /\ data' = pn_data_enter(pn_data_put_list(data))
  /\ UNCHANGED <<src, point, out, shadow>>
GenMap ==
  /\ out = NoOut /\ GenCan(data, "PN_MAP")
  /\ data' = pn_data_enter(pn_data_put_map(data))
  /\ UNCHANGED <<src, point, out, shadow>>
GenDescribed ==
  /\ out = NoOut /\ GenCan(data, PN_DESCRIPTOR)
  /\ data' = pn_data_enter(pn_data_put_described(data))
  /\ UNCHANGED <<src, point, out, shadow>>
GenArray ==
  /\ out = NoOut /\ GenCan(data, "PN_ARRAY")
  /\ \E described \in BOOLEAN, type \in GenArrayTypes :
       data' = pn_data_enter(pn_data_put_array(data, described, type))
  /\ UNCHANGED <<src, point, out, shadow>>
GenExit ==
  /\ out = NoOut /\ GenComplete(data)
  /\ data' = pn_data_exit(data)
  /\ UNCHANGED <<src, point, out, shadow>>

Gen == GenLeaf \/ GenList \/ GenMap \/ GenDescribed \/ GenArray \/ GenExit

\* room for any encoding of the values built
Ample == 64

\* the bytes pn_data_encode writes for d into a buffer with room
Wire(d, junk) == SubSeq(pn_data_encode(d, Ample, junk).out, 1,
                        pn_data_encode(d, Ample, junk).pos)

(***************************************************************************)
(* SpecRoundTrip: a value is built, encoded, and the bytes are decoded     *)
(* into an empty tree.                                                     *)
(***************************************************************************)
Decoded(e, r) ==
  [op |-> "roundtrip", enc |-> e.err, dec |-> r.err, parsed |-> r.perr,
   n |-> r.n, len |-> e.pos, tree |-> r.d]

RoundTrip ==
  /\ out = NoOut /\ Whole(data)
  /\ \E h \in Movers, capacity \in {1, TreeCapacity}, junk \in {0, 7} :
       /\ out' = Decoded(pn_data_encode(data, Ample, junk),
                         pn_data_decode(pn_data(capacity), Wire(data, junk), h, junk))
       /\ data' = pn_data_encode(data, Ample, junk).d
  /\ UNCHANGED <<src, point, shadow>>

RoundTripNext == Gen \/ RoundTrip

SpecRoundTrip == GenInit /\ [][RoundTripNext]_vars

\* C1: decoding the bytes encode produced for a well-formed value into an
\* empty tree succeeds and yields a tree with the same nodes in pre-order:
\* same kinds and payloads, child counts, described flags and element kinds.
C1_RoundTrip ==
  out.op = "roundtrip" =>
    /\ out.enc = "OK" /\ out.dec = "OK"
    /\ Shape(out.tree) = Shape(data)
(***************************************************************************)
(* SpecIntern: binaries, strings and symbols are put, on new nodes and on  *)
(* nodes the cursor was moved back to, until the store has grown.  shadow  *)
(* holds, per node, the bytes the caller passed.                           *)
(***************************************************************************)
MaxInternNodes == 4
MaxStoreBytes == 140

InternContents == { [i \in 1..30 |-> i], [i \in 1..40 |-> 100 + i] }

InternInit ==
  /\ data = pn_data(InitialCapacity)
  /\ src = pn_data(0)
  /\ point = [parent |-> 0, current |-> 0]
  /\ out = NoOut
  /\ shadow = << >>

InternFits(d) == d.size <= MaxInternNodes /\ Len(d.buf.bytes) <= MaxStoreBytes

\* what the callers passed, per node, after content went to the current node
Passed(d, content) ==
  [i \in 1..d.size |-> IF i = d.current THEN content ELSE shadow[i]]

InternPutBinary ==
  /\ \E content \in InternContents, h \in Movers :
       /\ InternFits(pn_data_put_var(data, "PN_BINARY", pn_bytes(content), h).d)
       /\ data' = pn_data_put_var(data, "PN_BINARY", pn_bytes(content), h).d
       /\ shadow' = Passed(data', content)
  /\ UNCHANGED <<src, point, out>>
InternPutString ==
  /\ \E content \in InternContents, h \in Movers :
       /\ InternFits(pn_data_put_var(data, "PN_STRING", pn_bytes(content), h).d)
       /\ data' = pn_data_put_var(data, "PN_STRING", pn_bytes(content), h).d
       /\ shadow' = Passed(data', content)
  /\ UNCHANGED <<src, point, out>>
InternPutSymbol ==
  /\ \E content \in InternContents, h \in Movers :
       /\ InternFits(pn_data_put_var(data, "PN_SYMBOL", pn_bytes(content), h).d)
       /\ data' = pn_data_put_var(data, "PN_SYMBOL", pn_bytes(content), h).d
       /\ shadow' = Passed(data', content)
  /\ UNCHANGED <<src, point, out>>
InternRewind ==
  /\ data' = pn_data_rewind(data)
  /\ UNCHANGED <<src, point, out, shadow>>
InternNext ==
  /\ pn_data_next_ok(data)
  /\ data' = pn_data_next(data)
  /\ UNCHANGED <<src, point, out, shadow>>

InternNext_ ==
  InternPutBinary \/ InternPutString \/ InternPutSymbol \/ InternRewind \/ InternNext

SpecIntern == InternInit /\ [][InternNext_]_vars

\* C4: after any sequence of put_binary, put_string and put_symbol with no
\* clear, whether or not the store grew and moved, every node's slice starts
\* at the store's base plus the node's recorded offset, lies within the
\* store, and reads as the bytes that were put.
C4_SlicesValid ==
  \A n \in 1..data.size :
    /\ data.nodes[n].data
    /\ data.nodes[n].atom.start = StorePtr(data.buf.base, data.nodes[n].data_offset)
    /\ data.nodes[n].atom.size = Len(shadow[n])
    /\ data.nodes[n].data_offset + data.nodes[n].atom.size <= Len(data.buf.bytes)
    /\ Deref(data, data.nodes[n].atom.start, data.nodes[n].atom.size) = shadow[n]

\* the store has grown and moved twice under interned nodes
C4_Witness ==
  /\ data.buf.base = 2
  /\ data.buf.capacity > 2 * BufferInitial
  /\ data.size >= 3
  /\ \E n \in 1..data.size : data.nodes[n].data_offset = 0 /\ Len(shadow[n]) > 0
(***************************************************************************)
(* SpecCopy: a forest is built in src a node at a time, the destination    *)
(* may already hold a value, and then src is copied or its first values    *)
(* are appended.  shadow holds the destination's structure before the      *)
(* call.                                                                   *)
(***************************************************************************)
MaxCopyNodes == 4
MaxCopyLimit == 2

CopyInit ==
  /\ data = pn_data(InitialCapacity)
  /\ src = pn_data(InitialCapacity)
  /\ point = [parent |-> 0, current |-> 0]
  /\ out = NoOut
  /\ shadow = << >>

CopyPutNull ==
  /\ out = NoOut /\ src.size < MaxCopyNodes
  /\ src' = pn_data_put_null(src)
  /\ UNCHANGED <<data, point, out, shadow>>
CopyPutString ==
  /\ out = NoOut /\ src.size < MaxCopyNodes
  /\ src' = pn_data_put_var(src, "PN_STRING", pn_bytes(<<97, 98>>), Calm).d
  /\ UNCHANGED <<data, point, out, shadow>>
CopyPutList ==
  /\ out = NoOut /\ src.size < MaxCopyNodes
  /\ src' = pn_data_enter(pn_data_put_list(src))
  /\ UNCHANGED <<data, point, out, shadow>>
CopyExit ==
  /\ out = NoOut /\ pn_data_exit_ok(src)
  /\ src' = pn_data_exit(src)
  /\ UNCHANGED <<data, point, out, shadow>>
CopySeed ==
  /\ out = NoOut /\ data.size = 0
  /\ data' = pn_data_put_fixed(data, "PN_BOOL", <<1>>)
  /\ UNCHANGED <<src, point, out, shadow>>
CopyCopy ==
  /\ out = NoOut
  /\ \E h \in Movers :
       /\ data' = pn_data_copy(data, src, h).d
       /\ src' = pn_data_copy(data, src, h).src
       /\ out' = [op |-> "copy", err |-> pn_data_copy(data, src, h).err]
  /\ shadow' = Shape(data)
  /\ UNCHANGED point
CopyAppendn ==
  /\ out = NoOut
  /\ \E h \in Movers, limit \in 0..MaxCopyLimit :
       /\ data' = pn_data_appendn(data, src, limit, h).d
       /\ src' = pn_data_appendn(data, src, limit, h).src
       /\ out' = [op |-> "appendn", err |-> pn_data_appendn(data, src, limit, h).err,
                  limit |-> limit]
  /\ shadow' = Shape(data)
  /\ UNCHANGED point

CopyNext ==
  \/ CopyPutNull \/ CopyPutString \/ CopyPutList \/ CopyExit \/ CopySeed
  \/ CopyCopy \/ CopyAppendn

SpecCopy == CopyInit /\ [][CopyNext]_vars

\* C5: after copy the destination is structurally equal to the whole forest
\* of the source, and after appendn with limit n the destination holds what
\* it held before followed by the first n top-level values of the source,
\* each with its complete subtree, in order and at their nesting levels.
C5_CopyComplete ==
  /\ out.op = "copy" => out.err = "OK" /\ Shape(data) = Shape(src)
  /\ out.op = "appendn" =>
       out.err = "OK" /\ Shape(data) = shadow \o FirstValues(src, out.limit)
(***************************************************************************)
(* SpecStream: the encoding of a value, or an encoding written by hand     *)
(* with codes the encoder does not produce, is followed by the encoding of *)
(* another value; the stream is decoded, and decoded again from the offset *)
(* the first decode returned.                                              *)
(***************************************************************************)
StreamHeads ==
  { <<PNE_LIST0>>,
    <<PNE_LIST8, 2, 1, PNE_NULL>>,
    <<PNE_MAP8, 4, 2, PNE_SMALLUINT, 5, PNE_TRUE>>,
    <<PNE_SMALLINT, 249>>,
    <<PNE_SMALLULONG, 7>>,
    <<PNE_STR8_UTF8, 2, 97, 98>>,
    <<PNE_ARRAY8, 2, 2, PNE_TRUE>>,
    <<PNE_ARRAY8, 7, 2, PNE_DESCRIPTOR, PNE_SYM8, 1, 115, PNE_SMALLUINT, 5, 6>>,
    <<PNE_DESCRIPTOR, PNE_SYM8, 1, 115, PNE_UINT0>> }

StreamTails ==
  { << >>, <<PNE_TRUE>>, <<PNE_SMALLUINT, 5>>, <<PNE_LIST8, 2, 1, PNE_NULL>> }

\* the input from offset n on
From(inp, n) == SubSeq(inp, n + 1, Len(inp))

\* first: the decode of head \o tail; second: the decode from first.n on;
\* alone: the decode of tail by itself
Streamed(head, tail, first, second, alone) ==
  [op |-> "stream", head |-> Len(head), tail |-> Len(tail),
   err |-> first.err, n |-> first.n, tries |-> first.tries,
   err2 |-> second.err, n2 |-> second.n,
   next |-> Shape(second.d), alone |-> Shape(alone.d)]

StreamOf(head, tail, first, h) ==
  Streamed(head, tail, first,
           pn_data_decode(pn_data(InitialCapacity),
                          From(head \o tail, IF first.n < 0 THEN 0 ELSE first.n), h, 0),
           pn_data_decode(pn_data(InitialCapacity), tail, h, 0))

Stream(head, tail, h) ==
  StreamOf(head, tail, pn_data_decode(pn_data(InitialCapacity), head \o tail, h, 0), h)

StreamEncoded ==
  /\ out = NoOut /\ Whole(data)
  /\ \E tail \in StreamTails, h \in Movers : out' = Stream(Wire(data, 0), tail, h)
  /\ data' = pn_data_encode(data, Ample, 0).d
  /\ UNCHANGED <<src, point, shadow>>
StreamWire ==
  /\ out = NoOut /\ data.size = 0
  /\ \E head \in StreamHeads, tail \in StreamTails, h \in Movers :
       out' = Stream(head, tail, h)
  /\ UNCHANGED <<data, src, point, shadow>>

StreamNext == Gen \/ StreamEncoded \/ StreamWire

SpecStream == GenInit /\ [][StreamNext]_vars

\* C6: decode of a stream returns the number of bytes of its first value,
\* whatever follows it, and a decode from the returned offset decodes the
\* value that follows, returning its number of bytes.
C6_OneValue ==
  out.op = "stream" =>
    /\ out.err = "OK" /\ out.n = out.head
    /\ out.tail > 0 => out.err2 = "OK" /\ out.n2 = out.tail /\ out.next = out.alone

\* a described value of five bytes was decoded from the front of a stream,
\* and the list after it from the returned offset
C6_Witness ==
  /\ out.op = "stream" /\ out.err = "OK" /\ out.head = 5 /\ out.n = 5
  /\ out.err2 = "OK" /\ out.n2 = 4 /\ Len(out.next) = 2
(***************************************************************************)
(* SpecDecodeInto: a tree is built, the cursor left wherever the building  *)
(* stopped, and an encoding is decoded into it.                            *)
(***************************************************************************)
IntoWires ==
  { <<PNE_TRUE>>, <<PNE_LIST8, 2, 1, PNE_NULL>>,
    <<PNE_DESCRIPTOR, PNE_SYM8, 1, 115, PNE_UINT0>> }

\* r: the decode into the tree as it is; fresh: the decode into an empty tree
Rebuilt(r, fresh) ==
  [op |-> "decode", err |-> r.err, n |-> r.n, held |-> data.size,
   expect |-> Shape(fresh.d)]

DecodeInto ==
  /\ out = NoOut
  /\ \E wire \in IntoWires, h \in Movers :
       /\ data' = pn_data_decode(data, wire, h, 0).d
       /\ out' = Rebuilt(pn_data_decode(data, wire, h, 0),
                         pn_data_decode(pn_data(InitialCapacity), wire, h, 0))
  /\ UNCHANGED <<src, point, shadow>>

DecodeIntoNext == Gen \/ DecodeInto

SpecDecodeInto == GenInit /\ [][DecodeIntoNext]_vars

\* C7: after a successful decode into a tree that may already hold nodes,
\* with the cursor anywhere, the tree holds the decoded value and nothing
\* else: it is structurally equal to the decode into an empty tree.
C7_DecodeClears ==
  out.op = "decode" /\ out.err = "OK" => Shape(data) = out.expect
(***************************************************************************)
(* SpecTruncated: a strict prefix of a valid encoding is decoded.  The     *)
(* bytes after the end of the input are whatever memory holds there (junk).*)
(***************************************************************************)
\* what memory may hold after the input
Junks == {0, 7}

Prefix(wire, k) == SubSeq(wire, 1, k)

Cut(wire, k, r) ==
  [op |-> "truncated", len |-> Len(wire), k |-> k, code |-> wire[1],
   err |-> r.err, n |-> r.n, oob |-> r.oob]

TruncateEncoded ==
  /\ out = NoOut /\ Whole(data)
  /\ \E k \in 0..(Len(Wire(data, 0)) - 1), junk \in Junks :
       out' = Cut(Wire(data, 0), k,
                  pn_data_decode(pn_data(InitialCapacity), Prefix(Wire(data, 0), k),
                                 Calm, junk))
  /\ data' = pn_data_encode(data, Ample, 0).d
  /\ UNCHANGED <<src, point, shadow>>
TruncateWire ==
  /\ out = NoOut /\ data.size = 0
  /\ \E wire \in StreamHeads, junk \in Junks :
       \E k \in 0..(Len(wire) - 1) :
         out' = Cut(wire, k,
                    pn_data_decode(pn_data(InitialCapacity), Prefix(wire, k), Calm, junk))
  /\ UNCHANGED <<data, src, point, shadow>>

TruncatedNext == Gen \/ TruncateEncoded \/ TruncateWire

SpecTruncated == GenInit /\ [][TruncatedNext]_vars

\* C8: the decode of a strict prefix of a valid encoding, cut at any byte
\* and for every type code, returns underflow and loads no byte at or
\* beyond the end of the input.
C8_TruncatedUnderflow ==
  out.op = "truncated" => out.err = "PN_UNDERFLOW" /\ ~out.oob
(***************************************************************************)
(* SpecEncode: a value is built and encoded into buffers of every capacity *)
(* up to one byte more than its encoding needs.                            *)
(***************************************************************************)
\* r: the encode into capacity bytes; full: the encoding given room
Encoded(capacity, r, full) ==
  [op |-> "encode", capacity |-> capacity, need |-> Len(full), full |-> full,
   err |-> r.err, n |-> r.pos, oob |-> r.oob, bytes |-> r.out]

Encode ==
  /\ out = NoOut /\ Whole(data)
  /\ \E capacity \in 0..(Len(Wire(data, 0)) + 1) :
       /\ out' = Encoded(capacity, pn_data_encode(data, capacity, 0), Wire(data, 0))
       /\ data' = pn_data_encode(data, capacity, 0).d
  /\ UNCHANGED <<src, point, shadow>>

EncodeNext == Gen \/ Encode

SpecEncode == GenInit /\ [][EncodeNext]_vars

MaxFillNodes == 4

\* the trees a 'C' argument points to: empty, [null] and [[ ]]
FillSources ==
  { pn_data(0),
    pn_data_rewind(pn_data_exit(pn_data_put_null(
      pn_data_enter(pn_data_put_list(pn_data(InitialCapacity)))))),
    pn_data_rewind(pn_data_exit(pn_data_exit(pn_data_enter(pn_data_put_list(
      pn_data_enter(pn_data_put_list(pn_data(InitialCapacity)))))))) }

FillInit ==
  /\ data = pn_data(InitialCapacity)
  /\ src \in FillSources
  /\ point = [parent |-> 0, current |-> 0]
  /\ out = [op |-> "fill", err |-> "OK", closed |-> 0]
  /\ shadow = << >>

Opened(node, kind) == [node |-> node, kind |-> kind, count |-> 0]

Pop(st) == SubSeq(st, 1, Len(st) - 1)

\* the format has completed an element at the innermost open level
RECURSIVE Complete(_)
CompleteOuter(r, node) ==
  [st |-> r.st, closed |-> IF r.closed # 0 THEN r.closed ELSE node]

Complete(st) ==
  IF st = << >> THEN [st |-> st, closed |-> 0]
  ELSE IF st[Len(st)].kind = "descriptor" /\ st[Len(st)].count = 1
  THEN CompleteOuter(Complete(Pop(st)), st[Len(st)].node)
  ELSE IF st[Len(st)].kind = "optional"
  THEN CompleteOuter(Complete(Pop(st)), st[Len(st)].node)
  ELSE [st |-> [st EXCEPT ![Len(st)].count = @ + 1], closed |-> 0]

\* the state of pn_data_vfill between two codes
Filling == [d |-> data, src |-> src, err |-> out.err, ret |-> FALSE, adv |-> 0]

\* g: the interpreter after the code(s); t: the format's composites after them
Filled(g, t) ==
  /\ ~g.ret /\ g.d.size <= MaxFillNodes
  /\ data' = g.d
  /\ src' = g.src
  /\ out' = [op |-> "fill", err |-> g.err, closed |-> t.closed]
  /\ shadow' = t.st

\* one turn of the loop for a code that is not after a T and looks at no
\* later character of the format
Turn(code, arg) == VFillCode(Filling, "NUL", code, "NUL", "NUL", arg, Calm)

Open(g, kind) == [st |-> Append(shadow, Opened(g.d.parent, kind)), closed |-> 0]

FillLeaf ==
  /\ \E code \in {"n", "I", "s"} :
       Filled(Turn(code, CASE code = "I" -> ValArg(<<0, 0, 0, 5>>)
                           [] code = "s" -> BytesArg(<<115>>)
                           [] OTHER -> Arg("none")),
              Complete(shadow))
  /\ UNCHANGED point
FillDescribed ==
  /\ Filled(Turn("D", Arg("none")), Open(Turn("D", Arg("none")), "descriptor"))
  /\ UNCHANGED point
FillList ==
  /\ Filled(Turn("[", Arg("none")), Open(Turn("[", Arg("none")), "list"))
  /\ UNCHANGED point
FillMap ==
  /\ Filled(Turn("{", Arg("none")), Open(Turn("{", Arg("none")), "map"))
  /\ UNCHANGED point

\* the codes @ T [ of an array of nulls
ArrayOpened(f) ==
  VFillCode(VFillCode(VFillCode(f, "NUL", "@", "T", "[", Arg("none"), Calm),
                      "@", "T", "[", "NUL", TypeArg("PN_NULL"), Calm),
            "T", "[", "NUL", "NUL", Arg("none"), Calm)

FillArray ==
  /\ Filled(ArrayOpened(Filling), Open(ArrayOpened(Filling), "array"))
  /\ UNCHANGED point
FillClose ==
  /\ shadow # << >>
  /\ \E code \in {"]", "}"} :
       /\ shadow[Len(shadow)].kind \in (IF code = "}" THEN {"map"} ELSE {"list", "array"})
       /\ Filled(Turn(code, Arg("none")), Complete(Pop(shadow)))
  /\ UNCHANGED point
FillOptional ==
  /\ \E pred \in BOOLEAN :
       Filled(Turn("?", PredArg(pred)),
              IF pred THEN [st |-> shadow, closed |-> 0]
              ELSE Open(Turn("?", PredArg(pred)), "optional"))
  /\ UNCHANGED point
FillCopied ==
  /\ Filled(Turn("C", TreeArg(FALSE)), Complete(shadow))
  /\ UNCHANGED point

FillNext ==
  \/ FillLeaf \/ FillDescribed \/ FillList \/ FillMap \/ FillArray \/ FillClose
  \/ FillOptional \/ FillCopied

SpecFill == FillInit /\ [][FillNext]_vars

\* whether the format still has the composite of node n open
Open_(n) == \E i \in 1..Len(shadow) : shadow[i].node = n

\* C10: in fill, a descriptor created by D takes exactly the next two
\* elements: while it awaits an element the cursor is directly inside it and
\* its children are the elements completed so far; when its second element
\* is complete the cursor is on the descriptor (on the outermost descriptor
\* or discarded optional completed with it), so that later codes add
\* siblings; a completed descriptor has two children and no descriptor has
\* more.  This with descriptors nested in descriptors, lists, maps, arrays.
C10_DescriptorPairs ==
  /\ \A n \in 1..data.size :
       data.nodes[n].atom.type = PN_DESCRIPTOR =>
         /\ data.nodes[n].children <= 2
         /\ ~Open_(n) => data.nodes[n].children = 2
  /\ shadow # << >> /\ shadow[Len(shadow)].kind = "descriptor" =>
       /\ data.parent = shadow[Len(shadow)].node
       /\ data.nodes[data.parent].children = shadow[Len(shadow)].count
  /\ out.closed # 0 => data.current = out.closed
(***************************************************************************)
(* SpecOptional: trees are opened by fills of one code each, then one fill *)
(* interprets an optional element: a possibly empty lead, the code ? with  *)
(* its predicate, and one element.                                         *)
(***************************************************************************)
MaxOptionalNodes == 2

\* the codes that set the scene, one call of pn_data_fill each
OptionalContexts == {"n", "[", "{", "D"}

\* what precedes ? in the format of the call
OptionalLeads == {<< >>, <<"n">>}

\* one element: a leaf, a described value, a bracketed list, map or array
OptionalBodies ==
  { [fmt |-> <<"n">>, args |-> << >>],
    [fmt |-> <<"I">>, args |-> <<ValArg(<<0, 0, 0, 5>>)>>],
    [fmt |-> <<"D", "n", "n">>, args |-> << >>],
    [fmt |-> <<"[", "]">>, args |-> << >>],
    [fmt |-> <<"[", "n", "n", "]">>, args |-> << >>],
    [fmt |-> <<"[", "[", "n", "]", "]">>, args |-> << >>],
    [fmt |-> <<"{", "n", "n", "}">>, args |-> << >>],
    [fmt |-> <<"@", "T", "[", "n", "]">>, args |-> <<TypeArg("PN_NULL")>>] }

\* what the local err of pn_data_vfill holds before its first assignment
OptionalEnvs == {Calm, [Calm EXCEPT !.err0 = "JUNK"]}

OptionalInit ==
  /\ data = pn_data(InitialCapacity)
  /\ src = pn_data(0)
  /\ point = [parent |-> 0, current |-> 0]
  /\ out = NoOut
  /\ shadow = << >>

OptionalOpen ==
  /\ out = NoOut /\ data.size < MaxOptionalNodes
  /\ \E code \in OptionalContexts :
       data' = pn_data_vfill(data, src, <<code>>, << >>, Calm).d
  /\ UNCHANGED <<src, point, out, shadow>>

\* r: the fill of lead ? body; before: the tree after the lead; plain: the
\* fill of the lead and the body without the ?
Optioned(r, pred, lead, before, plain) ==
  [op |-> "optional", pred |-> pred, lead |-> lead, err |-> r.err,
   null |-> pn_data_put_null(before), plain |-> plain,
   wire |-> Wire(r.d, 0)]

Optional ==
  /\ out = NoOut
  /\ \E pred \in BOOLEAN, lead \in OptionalLeads, body \in OptionalBodies,
        h \in OptionalEnvs :
       /\ out' = Optioned(pn_data_vfill(data, src, lead \o <<"?">> \o body.fmt,
                                        <<PredArg(pred)>> \o body.args, h),
                          pred, lead,
                          pn_data_vfill(data, src, lead, << >>, Calm).d,
                          pn_data_vfill(data, src, lead \o body.fmt, body.args, Calm).d)
       /\ data' = pn_data_vfill(data, src, lead \o <<"?">> \o body.fmt,
                                <<PredArg(pred)>> \o body.args, h).d
  /\ UNCHANGED <<src, point, shadow>>

OptionalNext == OptionalOpen \/ Optional

SpecOptional == OptionalInit /\ [][OptionalNext]_vars

\* the cursor and the reachable nodes of d are those of e
SameTree(d, e) ==
  d.parent = e.parent /\ d.current = e.current /\ Shape(d) = Shape(e)

\* C11: in fill, ? with a false predicate followed by one element leaves
\* exactly one new node at the level of the cursor, a null with no children
\* and no first child, with the cursor on it at the level it had before the
\* ?, and encode emits a single null for it; with a true predicate ? writes
\* nothing and the element that follows is written as without the ?.
C11_OptionalAbsorbs ==
  out.op = "optional" =>
    /\ out.err = "OK"
    /\ ~out.pred =>
         /\ SameTree(data, out.null)
         /\ data.nodes[data.current].atom.type = "PN_NULL"
         /\ data.nodes[data.current].children = 0
         /\ data.nodes[data.current].down = 0
         /\ out.wire = Wire(out.null, 0)
    /\ out.pred => SameTree(data, out.plain)
(***************************************************************************)
(* SpecScan: a format is scanned against a tree one code at a time (one    *)
(* turn of the loop of pn_data_vscan per step).  data is the tree scanned, *)
(* src the tree the C codes append to, out the locals of pn_data_vscan     *)
(* between two codes with the codes consumed so far and what the last turn *)
(* started from, shadow the brackets the format has open, innermost last.  *)
(***************************************************************************)
MaxScanCodes == 4

\* the encoding of the string "hello"
HelloBytes == <<104, 101, 108, 108, 111>>
HelloWire == <<PNE_STR8_UTF8, 5>> \o HelloBytes

HelloTree == pn_data_decode(pn_data(InitialCapacity), HelloWire, Calm, 0).d

\* the trees scanned: "hello" decoded from its encoding; a described string;
\* a list of a null and a string; a map, an array and a null; two nulls
ScanTrees ==
  { HelloTree,
    pn_data_vfill(pn_data(InitialCapacity), pn_data(0), <<"D", "n", "S">>,
                  <<BytesArg(HelloBytes)>>, Calm).d,
    pn_data_vfill(pn_data(InitialCapacity), pn_data(0), <<"[", "n", "S", "]">>,
                  <<BytesArg(HelloBytes)>>, Calm).d,
    pn_data_vfill(pn_data(InitialCapacity), pn_data(0),
                  <<"{", "n", "n", "}", "@", "T", "[", "n", "]", "n">>,
                  <<TypeArg("PN_NULL")>>, Calm).d,
    pn_data_vfill(pn_data(InitialCapacity), pn_data(0), <<"n", "n">>, << >>, Calm).d }

ScanElementCodes == {"n", "S", "s", ".", "C"}
ScanStructuralCodes == {"D", "@", "[", "{"}
ScanCodes == ScanElementCodes \cup ScanStructuralCodes \cup {"]", "}", "?"}

NoCursor == [parent |-> 0 - 1, current |-> 0 - 1]

\* the locals as pn_data_vscan initialises them, after its pn_data_rewind
ScanInit ==
  /\ data \in {pn_data_rewind(t) : t \in ScanTrees}
  /\ src = pn_data(0)
  /\ point = [parent |-> 0, current |-> 0]
  /\ out = [op |-> "scan", fmt |-> << >>, at |-> FALSE, level |-> 0,
            count_level |-> 0 - 1, resume_count |-> 0, scanarg |-> FALSE,
            outs |-> << >>, suspend |-> FALSE, failed |-> FALSE,
            depth |-> 0, stores |-> 0, from |-> NoCursor, frozen |-> NoCursor]
  /\ shadow = << >>

\* the state of pn_data_vscan at the top of a turn; scanned holds garbage
Scanning(garbage) ==
  [d |-> data, dst |-> src, at |-> out.at, level |-> out.level,
   count_level |-> out.count_level, resume_count |-> out.resume_count,
   scanarg |-> out.scanarg, scanned |-> garbage, outs |-> out.outs,
   err |-> "OK", ret |-> FALSE]

\* whether the format may continue with code
ScanMay(code) ==
  /\ Len(out.fmt) < MaxScanCodes
  /\ out.scanarg => code # "?"
  /\ code = "]" => shadow # << >> /\ shadow[Len(shadow)].kind = "["
  /\ code = "}" => shadow # << >> /\ shadow[Len(shadow)].kind = "{"

\* a structural code that did not find its kind: all but the [ that follows
\* a matched @
ScanMissed(w, code) ==
  code \in ScanStructuralCodes /\ ~w.scanned /\ ~(code = "[" /\ out.at)

\* the brackets open after the turn: one opened while the scan is suspended,
\* or that did not find its kind, records the cursor the turn left
ScanBrackets(w, code) ==
  IF code \in {"[", "{"}
  THEN Append(shadow, [kind |-> code,
                       failed |-> out.resume_count > 0 \/ ScanMissed(w, code),
                       cursor |-> pn_data_point(w.d)])
  ELSE IF code \in {"]", "}"} THEN Pop(shadow)
  ELSE shadow

\* the cursor a failed construct holds the tree at: that of the innermost
\* open bracket if it failed, that of a failed bracket the turn closed
ScanFrozen(st, code) ==
  IF code \in {"]", "}"} /\ shadow[Len(shadow)].failed
  THEN shadow[Len(shadow)].cursor
  ELSE IF st # << >> /\ st[Len(st)].failed THEN st[Len(st)].cursor
  ELSE NoCursor

\* w: the locals after the turn for code
Scanned(w, code) ==
  /\ ~w.ret
  /\ data' = w.d
  /\ src' = w.dst
  /\ shadow' = ScanBrackets(w, code)
  /\ out' = [op |-> "scan", fmt |-> Append(out.fmt, code), at |-> w.at,
             level |-> w.level, count_level |-> w.count_level,
             resume_count |-> w.resume_count, scanarg |-> w.scanarg,
             outs |-> w.outs,
             suspend |-> out.resume_count > 0,
             failed |-> out.resume_count = 0 /\ ScanMissed(w, code),
             depth |-> out.level, stores |-> Len(out.outs),
             from |-> pn_data_point(data),
             frozen |-> ScanFrozen(ScanBrackets(w, code), code)]

ScanElement ==
  /\ \E code \in ScanElementCodes :
       /\ ScanMay(code)
       /\ Scanned(ScanCode(Scanning(FALSE), code, "NUL", FALSE, Calm), code)
  /\ UNCHANGED point
ScanStructure ==
  /\ \E code \in ScanStructuralCodes :
       /\ ScanMay(code)
       /\ Scanned(ScanCode(Scanning(FALSE), code, "NUL", FALSE, Calm), code)
  /\ UNCHANGED point
ScanClose ==
  /\ \E code \in {"]", "}"}, garbage \in BOOLEAN :
       /\ ScanMay(code)
       /\ Scanned(ScanCode(Scanning(garbage), code, "NUL", garbage, Calm), code)
  /\ UNCHANGED point
\* a ? that a code follows
ScanFlag ==
  /\ ScanMay("?")
  /\ Scanned(ScanCode(Scanning(FALSE), "?", ".", FALSE, Calm), "?")
  /\ UNCHANGED point

ScanNext == ScanElement \/ ScanStructure \/ ScanClose \/ ScanFlag

SpecScan == ScanInit /\ [][ScanNext]_vars

\* C12: on the tree decoded from the encoding of the bare string "hello", a
\* scan of D . and the string code (s, or S which matches strings), with or
\* without a ? flag on the D, stores "hello" through the argument of the
\* string code, and false through the flag of the missing descriptor.
C12_BareString ==
  Shape(data) = Shape(HelloTree) =>
    \A code \in {"s", "S"} :
      /\ out.fmt = <<"?", "D", ".", code>> =>
           out.outs = <<[code |-> "?", val |-> FALSE],
                        [code |-> code, val |-> HelloBytes]>>
      /\ out.fmt = <<"D", ".", code>> =>
           out.outs = <<[code |-> code, val |-> HelloBytes]>>

\* C13: when a structural code D, @, [ or { does not find the kind it
\* expects and the scan is not suspended, the scan becomes suspended, keyed
\* to the depth of the code, with resume_count 3 for D and @ (of which the
\* code itself takes one at once, leaving 2) and 1 for [ and {; so the codes
\* nested in the failed construct leave the tree cursor where it was and the
\* closing bracket does not exit a tree level.
C13_StructuralSuspends ==
  /\ out.failed =>
       /\ out.resume_count = (IF out.fmt[Len(out.fmt)] \in {"D", "@"} THEN 2 ELSE 1)
       /\ out.count_level = out.depth
  /\ out.frozen # NoCursor => pn_data_point(data) = out.frozen

\* C14: while a scan is suspended, an element code consumes its format
\* character, leaves the tree cursor unchanged and stores nothing through
\* its output argument.
C14_SuspendedSkips ==
  out.suspend /\ out.fmt # << >> /\ out.fmt[Len(out.fmt)] \in ScanElementCodes =>
    /\ pn_data_point(data) = out.from
    /\ \A i \in (out.stores + 1)..Len(out.outs) : out.outs[i].code = "?"
(***************************************************************************)
(* SpecCompact: leaves are filled one code at a time, at the top level or  *)
(* after a D, and the tree is encoded.  shadow holds the codes filled so   *)
(* far, each with the value passed.                                        *)
(***************************************************************************)
MaxCompactNodes == 3
CompactRoom == 800

\* the values filled: ulongs and uints around 0 and 256, a negative long,
\* and binaries, strings and symbols of 1, 255 and 256 bytes
CompactLeaves ==
  { [code |-> "L", val |-> BE(v, 8)] : v \in {0, 1, 255, 256, 4660} }
  \cup { [code |-> "I", val |-> BE(v, 4)] : v \in {0, 5, 300} }
  \cup { [code |-> "l", val |-> BE(0 - 7, 8)] }
  \cup { [code |-> c, val |-> Rep(120, n)] : c \in {"z", "S", "s"}, n \in {255, 256} }
  \cup { [code |-> "S", val |-> <<120>>] }

CompactArg(leaf) ==
  IF leaf.code \in {"z", "S", "s"} THEN BytesArg(leaf.val) ELSE ValArg(leaf.val)

CompactInit ==
  /\ data = pn_data(InitialCapacity)
  /\ src = pn_data(0)
  /\ point = [parent |-> 0, current |-> 0]
  /\ out = NoOut
  /\ shadow = << >>

CompactDescribed ==
  /\ out = NoOut /\ shadow = << >>
  /\ data' = pn_data_vfill(data, src, <<"D">>, << >>, Calm).d
  /\ shadow' = <<[code |-> "D", val |-> << >>]>>
  /\ UNCHANGED <<src, point, out>>

CompactLeaf ==
  /\ out = NoOut /\ Len(shadow) < MaxCompactNodes
  /\ \E leaf \in CompactLeaves :
       /\ data' = pn_data_vfill(data, src, <<leaf.code>>, <<CompactArg(leaf)>>, Calm).d
       /\ shadow' = Append(shadow, leaf)
  /\ UNCHANGED <<src, point, out>>

\* e: what pn_data_encode left
Compacted(e) ==
  [op |-> "compact", err |-> e.err, wire |-> SubSeq(e.out, 1, e.pos)]

CompactEncode ==
  /\ out = NoOut /\ shadow # << >>
  /\ out' = Compacted(pn_data_encode(data, CompactRoom, 0))
  /\ data' = pn_data_encode(data, CompactRoom, 0).d
  /\ UNCHANGED <<src, point, shadow>>

CompactNext == CompactDescribed \/ CompactLeaf \/ CompactEncode

SpecCompact == CompactInit /\ [][CompactNext]_vars

\* the fill of "DLl" with 0x1234 and -7
FilledDLl ==
  shadow = <<[code |-> "D", val |-> << >>], [code |-> "L", val |-> BE(4660, 8)],
             [code |-> "l", val |-> BE(0 - 7, 8)]>>

CompactAll(leaves) ==
  /\ \E i \in 1..Len(shadow) : shadow[i].code # "D"
  /\ \A i \in 1..Len(shadow) : shadow[i].code = "D" \/ shadow[i] \in leaves

ZeroLeaf(leaf) == leaf.code \in {"I", "L"} /\ IsZero(leaf.val)

ZeroCode(leaf) == IF leaf.code = "I" THEN <<PNE_UINT0>> ELSE <<PNE_ULONG0>>

\* C17: outside arrays, a uint equal to 0 is encoded with the code uint0 and
\* a ulong equal to 0 with the code ulong0, each in exactly one byte.
RECURSIVE ZeroExpected(_)
ZeroExpected(st) ==
  IF st = << >> THEN << >>
  ELSE (IF Head(st).code = "D" THEN <<PNE_DESCRIPTOR>> ELSE ZeroCode(Head(st)))
       \o ZeroExpected(Tail(st))

C17_ZeroCodes ==
  out.op = "compact" /\ CompactAll({leaf \in CompactLeaves : ZeroLeaf(leaf)}) =>
    /\ out.err = "OK"
    /\ out.wire = ZeroExpected(shadow)

SizedLeaf(leaf) ==
  \/ leaf.code = "L" /\ ~IsZero(leaf.val)
  \/ leaf.code \in {"z", "S", "s"}

\* the one-byte form below 256, the full-width form from 256 on
SizedCode(leaf) ==
  CASE leaf.code = "L" ->
         IF IsZero(SubSeq(leaf.val, 1, 7)) THEN <<PNE_SMALLULONG, leaf.val[8]>>
         ELSE <<PNE_ULONG>> \o leaf.val
    [] Len(leaf.val) <= 255 ->
         <<(CASE leaf.code = "z" -> PNE_VBIN8 [] leaf.code = "S" -> PNE_STR8_UTF8
              [] leaf.code = "s" -> PNE_SYM8), Len(leaf.val)>> \o leaf.val
    [] OTHER ->
         <<(CASE leaf.code = "z" -> PNE_VBIN32 [] leaf.code = "S" -> PNE_STR32_UTF8
              [] leaf.code = "s" -> PNE_SYM32)>> \o BE(Len(leaf.val), 4) \o leaf.val

\* C18: outside arrays, a ulong v with 0 < v <= 255 is encoded in 2 bytes
\* (smallulong and one byte) and v >= 256 in 9 bytes; a string, symbol or
\* binary of up to 255 bytes with the 8-bit length code (1 + 1 + length
\* bytes), of 256 bytes with the 32-bit length code (1 + 4 + length bytes);
\* the length prefix equals the length of the payload.
RECURSIVE SizedExpected(_)
SizedExpected(st) ==
  IF st = << >> THEN << >>
  ELSE (IF Head(st).code = "D" THEN <<PNE_DESCRIPTOR>> ELSE SizedCode(Head(st)))
       \o SizedExpected(Tail(st))

C18_SwitchAt256 ==
  out.op = "compact" /\ CompactAll({leaf \in CompactLeaves : SizedLeaf(leaf)}) =>
    /\ out.err = "OK"
    /\ out.wire = SizedExpected(shadow)

\* a string of 255 bytes and a string of 256 bytes encoded side by side
C18_Witness ==
  /\ out.op = "compact" /\ out.err = "OK"
  /\ shadow = <<[code |-> "S", val |-> Rep(120, 255)],
                [code |-> "S", val |-> Rep(120, 256)]>>
  /\ Len(out.wire) = 257 + 261
  /\ out.wire[1] = PNE_STR8_UTF8 /\ out.wire[2] = 255
  /\ out.wire[258] = PNE_STR32_UTF8 /\ SubSeq(out.wire, 259, 262) = <<0, 0, 1, 0>>
(***************************************************************************)
(* SpecContainers: one array or one map is built in an empty tree, by a    *)
(* fill or by puts, and the tree is encoded.  shadow holds what was built. *)
(***************************************************************************)
MaxArrayElements == 4
MaxDescribedElements == 2
MaxMapChildren == 3

\* the element kinds of the arrays built, each with the width of its payload
\* and the fill code that puts one
ArrayKinds ==
  { [type |-> "PN_UINT", width |-> 4, code |-> "I"],
    [type |-> "PN_ULONG", width |-> 8, code |-> "L"] }

ArrayValues == {0, 1, 2, 300}

\* the descriptors of the described arrays built
Descriptors ==
  { [type |-> "PN_ULONG", val |-> BE(5, 8)],
    [type |-> "PN_ULONG", val |-> BE(4660, 8)],
    [type |-> "PN_UINT", val |-> BE(7, 4)],
    [type |-> "PN_BOOL", val |-> <<1>>],
    [type |-> "PN_SYMBOL", val |-> <<97, 98>>] }

SeqsUpTo(S, n) == UNION { [1..k -> S] : k \in 0..n }

NoContainer == [kind |-> "none"]

ContainerInit ==
  /\ data = pn_data(InitialCapacity)
  /\ src = pn_data(0)
  /\ point = [parent |-> 0, current |-> 0]
  /\ out = NoOut
  /\ shadow = NoContainer

\* the format "@T[" code^n "]" and its arguments
ArrayFormat(kind, vals) ==
  <<"@", "T", "[">> \o [i \in 1..Len(vals) |-> kind.code] \o <<"]">>

ArrayArgs(kind, vals) ==
  <<TypeArg(kind.type)>> \o [i \in 1..Len(vals) |-> ValArg(BE(vals[i], kind.width))]

\* pn_data_fill(data, "@T[I..I]", T, v1, .., vn)
ArrayFill ==
  /\ shadow = NoContainer
  /\ \E kind \in ArrayKinds, vals \in SeqsUpTo(ArrayValues, MaxArrayElements),
        h \in OptionalEnvs :
       /\ data' = pn_data_vfill(data, src, ArrayFormat(kind, vals), ArrayArgs(kind, vals), h).d
       /\ shadow' = [kind |-> "array", described |-> FALSE, type |-> kind.type,
                     width |-> kind.width, vals |-> vals,
                     err |-> pn_data_vfill(data, src, ArrayFormat(kind, vals),
                                           ArrayArgs(kind, vals), h).err]
  /\ UNCHANGED <<src, point, out>>

\* pn_data_put_<kind>(data, v) for each value of a sequence
RECURSIVE PutAll(_, _, _)
PutAll(d, kind, vals) ==
  IF vals = << >> THEN d
  ELSE PutAll(pn_data_put_fixed(d, kind.type, BE(Head(vals), kind.width)), kind,
              Tail(vals))

\* the put of a descriptor value
PutDescriptor(d, desc) ==
  IF desc.type = "PN_SYMBOL" THEN pn_data_put_var(d, desc.type, pn_bytes(desc.val), Calm).d
  ELSE pn_data_put_fixed(d, desc.type, desc.val)

\* pn_data_put_array(data, true, T); pn_data_enter; the descriptor; the
\* elements; pn_data_exit
DescribedPut ==
  /\ shadow = NoContainer
  /\ \E kind \in ArrayKinds, desc \in Descriptors,
        vals \in SeqsUpTo(ArrayValues, MaxDescribedElements) :
       /\ data' = pn_data_exit(PutAll(PutDescriptor(
                    pn_data_enter(pn_data_put_array(data, TRUE, kind.type)), desc),
                    kind, vals))
       /\ shadow' = [kind |-> "array", described |-> TRUE, type |-> kind.type,
                     width |-> kind.width, desc |-> desc, vals |-> vals]
  /\ UNCHANGED <<src, point, out>>

\* pn_data_put_map(data); pn_data_enter; n puts of a uint; pn_data_exit
MapPut ==
  /\ shadow = NoContainer
  /\ \E vals \in SeqsUpTo(ArrayValues, MaxMapChildren) :
       /\ data' = pn_data_exit(PutAll(pn_data_enter(pn_data_put_map(data)),
                    [type |-> "PN_UINT", width |-> 4], vals))
       /\ shadow' = [kind |-> "map", vals |-> vals]
  /\ UNCHANGED <<src, point, out>>

\* e: what pn_data_encode left
ContainerWire(e) ==
  [op |-> "encoded", err |-> e.err, wire |-> SubSeq(e.out, 1, e.pos)]

ContainerEncode ==
  /\ out = NoOut /\ shadow # NoContainer
  /\ out' = ContainerWire(pn_data_encode(data, Ample, 0))
  /\ data' = pn_data_encode(data, Ample, 0).d
  /\ UNCHANGED <<src, point, shadow>>

ContainerNext == ArrayFill \/ DescribedPut \/ MapPut \/ ContainerEncode

SpecContainers == ContainerInit /\ [][ContainerNext]_vars

\* the payloads of the elements, each at the full width of the element kind
RECURSIVE Payloads(_, _)
Payloads(vals, width) ==
  IF vals = << >> THEN << >>
  ELSE BE(Head(vals), width) \o Payloads(Tail(vals), width)

\* a compound: its code, the size of what follows the size, and that
Sized(code, body) == <<code>> \o BE(Len(body), 4) \o body

\* C16: a fill of "@T[IIII]" with T = PN_UINT and the values 0, 1, 2, 300
\* encodes as the array32 code, a 4-byte size, the count 4, the code 0x70
\* once and four 4-byte big-endian uints; every array filled so carries the
\* code of its element kind once, whatever the values of its elements.
C16_StampedOnce ==
  out.op = "encoded" /\ shadow.kind = "array" /\ ~shadow.described =>
    /\ shadow.err = "OK" /\ out.err = "OK"
    /\ out.wire = Sized(PNE_ARRAY32,
                        BE(Len(shadow.vals), 4) \o <<pn_type2code(shadow.type)>>
                          \o Payloads(shadow.vals, shadow.width))
    /\ shadow.type = "PN_UINT" /\ shadow.vals = <<0, 1, 2, 300>> =>
         out.wire = <<240, 0, 0, 0, 21, 0, 0, 0, 4, 112,
                      0, 0, 0, 0, 0, 0, 0, 1, 0, 0, 0, 2, 0, 0, 1, 44>>

C16_Witness ==
  /\ out.op = "encoded" /\ shadow.kind = "array" /\ ~shadow.described
  /\ shadow.type = "PN_UINT" /\ shadow.vals = <<0, 1, 2, 300>>
  /\ Len(out.wire) = 26

\* the encodings of a value as an ordinary value of its own kind: the code
\* of the kind with its full payload, and the compact form where there is one
OrdinaryForms(desc) ==
  CASE desc.type = "PN_ULONG" ->
         {<<PNE_ULONG>> \o desc.val}
         \cup (IF Below256(desc.val) THEN {<<PNE_SMALLULONG, desc.val[8]>>} ELSE {})
    [] desc.type = "PN_UINT" ->
         {<<PNE_UINT>> \o desc.val}
         \cup (IF Below256(desc.val) THEN {<<PNE_SMALLUINT, desc.val[4]>>} ELSE {})
    [] desc.type = "PN_BOOL" ->
         {<<PNE_BOOLEAN>> \o desc.val, <<IF desc.val = <<0>> THEN PNE_FALSE ELSE PNE_TRUE>>}
    [] desc.type = "PN_SYMBOL" ->
         {<<PNE_SYM32>> \o BE(Len(desc.val), 4) \o desc.val,
          <<PNE_SYM8, Len(desc.val)>> \o desc.val}

\* a described array as the claim has it, with the descriptor in the form f
DescribedWire(f) ==
  Sized(PNE_ARRAY32,
        BE(Len(shadow.vals), 4) \o <<PNE_DESCRIPTOR>> \o f
          \o <<pn_type2code(shadow.type)>> \o Payloads(shadow.vals, shadow.width))

\* C19: a described array is encoded as the array header, the descriptor
\* marker 0x00, the descriptor as an ordinary value with the code and payload
\* of its own kind, the element code once, then the payload of each element,
\* whatever the kinds of the descriptor and of the elements.
C19_DescriptorOwnKind ==
  out.op = "encoded" /\ shadow.kind = "array" /\ shadow.described =>
    /\ out.err = "OK"
    /\ \E f \in OrdinaryForms(shadow.desc) : out.wire = DescribedWire(f)

\* C20: a map built with an odd number of child puts is refused by encode
\* with an argument error, or encoded with the count children / 2; the odd
\* number of children is never written as the count.
C20_OddMap ==
  out.op = "encoded" /\ shadow.kind = "map" /\ Len(shadow.vals) % 2 = 1 =>
    \/ out.err = "PN_ARG_ERR"
    \/ /\ out.err = "OK"
       /\ SubSeq(out.wire, 6, 9) = BE(Len(shadow.vals) \div 2, 4)

\* the nodes of the sibling list that starts at node n
RECURSIVE Chain(_, _, _)
Chain(d, n, fuel) ==
  IF n = 0 \/ fuel = 0 THEN {} ELSE {n} \cup Chain(d, d.nodes[n].next, fuel - 1)

\* the element children of array node n: its children but the descriptor
Elements(d, n) ==
  Chain(d, d.nodes[n].down, d.size + 1)
    \ (IF d.nodes[n].described THEN {d.nodes[n].down} ELSE {})

\* C21: in every tree reached through the public operations, the element
\* children of every array node have the kind that is the array's element
\* type.
C21_ArrayHomogeneous ==
  \A n \in Reachable(data) :
    data.nodes[n].atom.type = "PN_ARRAY" =>
      \A c \in Elements(data, n) : data.nodes[c].atom.type = data.nodes[n].type
(***************************************************************************)
(* SpecPoint: a tree is built, the cursor is saved with pn_data_point, the *)
(* cursor is moved, and the point is restored.  shadow tells whether the   *)
(* point is taken; out holds what the last pn_data_restore returned.       *)
(***************************************************************************)
MaxPointNodes == 4

PointInit ==
  /\ data = pn_data(TreeCapacity)
  /\ src = pn_data(0)
  /\ point = [parent |-> 0, current |-> 0]
  /\ out = NoOut
  /\ shadow = FALSE

PointPutNull ==
  /\ ~shadow /\ pn_data_put_null(data).size <= MaxPointNodes
  /\ data' = pn_data_put_null(data)
  /\ UNCHANGED <<src, point, out, shadow>>

PointPutList ==
  /\ ~shadow /\ pn_data_put_list(data).size <= MaxPointNodes
  /\ data' = pn_data_put_list(data)
  /\ UNCHANGED <<src, point, out, shadow>>

PointEnter ==
  /\ pn_data_enter_ok(data)
  /\ data' = pn_data_enter(data)
  /\ out' = NoOut
  /\ UNCHANGED <<src, point, shadow>>

PointExit ==
  /\ pn_data_exit_ok(data)
  /\ data' = pn_data_exit(data)
  /\ out' = NoOut
  /\ UNCHANGED <<src, point, shadow>>

PointNext ==
  /\ pn_data_next_ok(data)
  /\ data' = pn_data_next(data)
  /\ out' = NoOut
  /\ UNCHANGED <<src, point, shadow>>

PointPrev ==
  /\ pn_data_prev_ok(data)
  /\ data' = pn_data_prev(data)
  /\ out' = NoOut
  /\ UNCHANGED <<src, point, shadow>>

PointRewind ==
  /\ data' = pn_data_rewind(data)
  /\ out' = NoOut
  /\ UNCHANGED <<src, point, shadow>>

\* point = pn_data_point(data)
PointSave ==
  /\ ~shadow
  /\ point' = pn_data_point(data)
  /\ shadow' = TRUE
  /\ UNCHANGED <<data, src, out>>

\* ok = pn_data_restore(data, point)
PointRestore ==
  /\ shadow
  /\ data' = pn_data_restore(data, point)
  /\ out' = [op |-> "restore", ok |-> pn_data_restore_ok(data, point),
             from |-> pn_data_point(data)]
  /\ UNCHANGED <<src, point, shadow>>

PointStep ==
  \/ PointPutNull \/ PointPutList \/ PointEnter \/ PointExit \/ PointNext
  \/ PointPrev \/ PointRewind \/ PointSave \/ PointRestore

SpecPoint == PointInit /\ [][PointStep]_vars

\* C22: a restore of a point taken by pn_data_point, after any moves of the
\* cursor, returns true and puts the cursor back on the parent and current
\* the point recorded, whatever they are: a current of 0 and the start of
\* the tree included.
C22_RestoreFull ==
  out.op = "restore" => out.ok /\ pn_data_point(data) = point
(***************************************************************************)
(* SpecNarrow: a tree is built, pn_data_narrow anchors the cursor, the     *)
(* cursor is moved, and pn_data_widen clears the anchor.  shadow tells     *)
(* whether the tree is narrowed, point holds the cursor it was narrowed    *)
(* at, out the last move.                                                  *)
(***************************************************************************)
MaxNarrowNodes == 4

NarrowInit ==
  /\ data = pn_data(TreeCapacity)
  /\ src = pn_data(0)
  /\ point = [parent |-> 0, current |-> 0]
  /\ out = NoOut
  /\ shadow = FALSE

NarrowPutNull ==
  /\ ~shadow /\ pn_data_put_null(data).size <= MaxNarrowNodes
  /\ data' = pn_data_put_null(data)
  /\ out' = NoOut
  /\ UNCHANGED <<src, point, shadow>>

NarrowPutList ==
  /\ ~shadow /\ pn_data_put_list(data).size <= MaxNarrowNodes
  /\ data' = pn_data_put_list(data)
  /\ out' = NoOut
  /\ UNCHANGED <<src, point, shadow>>

NarrowEnter ==
  /\ pn_data_enter_ok(data)
  /\ data' = pn_data_enter(data)
  /\ out' = [op |-> "enter"]
  /\ UNCHANGED <<src, point, shadow>>

NarrowExit ==
  /\ pn_data_exit_ok(data)
  /\ data' = pn_data_exit(data)
  /\ out' = [op |-> "exit"]
  /\ UNCHANGED <<src, point, shadow>>

NarrowNext ==
  /\ pn_data_next_ok(data)
  /\ data' = pn_data_next(data)
  /\ out' = [op |-> "next"]
  /\ UNCHANGED <<src, point, shadow>>

NarrowPrev ==
  /\ pn_data_prev_ok(data)
  /\ data' = pn_data_prev(data)
  /\ out' = [op |-> "prev"]
  /\ UNCHANGED <<src, point, shadow>>

NarrowRewind ==
  /\ data' = pn_data_rewind(data)
  /\ out' = [op |-> "rewind"]
  /\ UNCHANGED <<src, point, shadow>>

Narrow ==
  /\ ~shadow
  /\ data' = pn_data_narrow(data)
  /\ point' = pn_data_point(data)
  /\ shadow' = TRUE
  /\ out' = [op |-> "narrow"]
  /\ UNCHANGED src

Widen ==
  /\ shadow
  /\ data' = pn_data_widen(data)
  /\ point' = [parent |-> 0, current |-> 0]
  /\ shadow' = FALSE
  /\ out' = [op |-> "widen"]
  /\ UNCHANGED src

NarrowStep ==
  \/ NarrowPutNull \/ NarrowPutList \/ NarrowEnter \/ NarrowExit \/ NarrowNext
  \/ NarrowPrev \/ NarrowRewind \/ Narrow \/ Widen

SpecNarrow == NarrowInit /\ [][NarrowStep]_vars

\* node n or its ancestor that is a child of p (0: none)
RECURSIVE Under(_, _, _, _)
Under(d, n, p, fuel) ==
  IF n = 0 \/ fuel = 0 THEN 0
  ELSE IF d.nodes[n].parent = p THEN n
  ELSE Under(d, d.nodes[n].parent, p, fuel - 1)

\* x: the child of p the cursor is on or below (0: on none)
ScopeHolds(d, c, x, level) ==
  IF c = 0 THEN level \/ x # 0 ELSE x \in Chain(d, c, d.size + 1)

\* whether the cursor of d is within the scope narrowed at (p, c): at the
\* level of p on c or a later sibling, or below one of these
InScope(d, p, c) ==
  IF d.parent = p THEN ScopeHolds(d, c, d.current, TRUE)
  ELSE ScopeHolds(d, c, Under(d, d.parent, p, d.size + 1), FALSE)

\* C23: while the tree is narrowed at (p, c) a rewind puts the cursor on
\* (p, c) and no next, prev, enter, exit or rewind takes the cursor above p
\* or before c; once widened, a rewind puts the cursor on (0, 0).
C23_NarrowConfines ==
  /\ out.op = "rewind" => pn_data_point(data) = point
  /\ shadow => InScope(data, point.parent, point.current)
(***************************************************************************)
(* SpecPutFail: values are put at the top level of a tree while the        *)
(* allocation that grows the interned store may fail.  shadow counts the   *)
(* puts that returned 0 and holds the node of the last put if it failed;   *)
(* out holds what the last put returned.                                   *)
(***************************************************************************)
MaxPutFailNodes == 4

\* the allocator succeeds, or fails when the store has to grow
PutFailEnvs == {Calm, [Calm EXCEPT !.fails = TRUE]}

PutFailInit ==
  /\ data = pn_data(InitialCapacity)
  /\ src = pn_data(0)
  /\ point = [parent |-> 0, current |-> 0]
  /\ out = NoOut
  /\ shadow = [ok |-> 0, failed |-> 0]

\* r: what the put left and returned
PutDone(r) ==
  /\ r.d.size <= MaxPutFailNodes
  /\ data' = r.d
  /\ out' = [op |-> "put", err |-> r.err, after |-> shadow.failed,
             node |-> r.d.current]
  /\ shadow' = [ok |-> shadow.ok + (IF r.err = "OK" THEN 1 ELSE 0),
                failed |-> IF r.err = "OK" THEN 0 ELSE r.d.current]

PutFailVar ==
  /\ \E type \in BytesKinds, content \in InternContents, h \in PutFailEnvs :
       PutDone(pn_data_put_var(data, type, pn_bytes(content), h))
  /\ UNCHANGED <<src, point>>

PutFailNull ==
  /\ PutDone([d |-> pn_data_put_null(data), err |-> "OK"])
  /\ UNCHANGED <<src, point>>

PutFailNext == PutFailVar \/ PutFailNull

SpecPutFail == PutFailInit /\ [][PutFailNext]_vars

\* C24: the put that follows a failed put_binary, put_string or put_symbol
\* writes over the node of the failed put, and the tree then holds one node
\* per put that succeeded: the failed value is not among its nodes.
C24_FailedPutOverwritten ==
  out.op = "put" =>
    /\ out.after # 0 => out.node = out.after
    /\ out.err = "OK" => Cardinality(Reachable(data)) = shadow.ok
(***************************************************************************)
(* SpecGrammar: top-level values are filled one format at a time, formats  *)
(* that end in a character of no code are filled and scanned.  out holds   *)
(* the format, what the call returned and what it left; shadow tells       *)
(* whether a scan has moved the cursor.                                    *)
(***************************************************************************)
MaxGrammarNodes == 3

\* the kind of the node each code of the grammar table produces in a fill
GrammarKind ==
  [n |-> "PN_NULL", o |-> "PN_BOOL", B |-> "PN_UBYTE", b |-> "PN_BYTE",
   H |-> "PN_USHORT", h |-> "PN_SHORT", I |-> "PN_UINT", i |-> "PN_INT",
   L |-> "PN_ULONG", l |-> "PN_LONG", t |-> "PN_TIMESTAMP", f |-> "PN_FLOAT",
   d |-> "PN_DOUBLE", c |-> "PN_CHAR", z |-> "PN_BINARY", S |-> "PN_STRING",
   s |-> "PN_SYMBOL"]

\* one format per code of the table, with its arguments and the kind of the
\* first node it is to produce
GrammarFormats ==
  { [fmt |-> <<"n">>, args |-> << >>, kind |-> "PN_NULL"] }
  \cup { [fmt |-> <<code>>, args |-> <<ValArg(BE(1, Width(GrammarKind[code])))>>,
          kind |-> GrammarKind[code]] :
         code \in {"o", "B", "b", "H", "h", "I", "i", "L", "l", "t", "f", "d", "c"} }
  \cup { [fmt |-> <<code>>, args |-> <<BytesArg(<<120>>)>>, kind |-> GrammarKind[code]] :
         code \in {"z", "S", "s"} }
  \cup { [fmt |-> <<"D", "n", "n">>, args |-> << >>, kind |-> PN_DESCRIPTOR],
         [fmt |-> <<"@", "T", "[", "]">>, args |-> <<TypeArg("PN_UINT")>>,
          kind |-> "PN_ARRAY"],
         [fmt |-> <<"[", "]">>, args |-> << >>, kind |-> "PN_LIST"],
         [fmt |-> <<"{", "}">>, args |-> << >>, kind |-> "PN_MAP"],
         [fmt |-> <<"?", "n">>, args |-> <<PredArg(TRUE)>>, kind |-> "PN_NULL"],
         [fmt |-> <<"*", "s">>, args |-> <<RepArg(<<<<115>>>>)>>, kind |-> "PN_SYMBOL"],
         [fmt |-> <<"C">>, args |-> <<TreeArg(FALSE)>>, kind |-> "PN_LIST"] }

\* characters that are no code of a fill, and of a scan
FillUnknown == {"x", "Z", "."}
ScanUnknown == {"x", "Z", "#"}

\* what is filled or scanned before the unknown character
FillLeads ==
  { [fmt |-> << >>, args |-> << >>],
    [fmt |-> <<"n">>, args |-> << >>],
    [fmt |-> <<"[", "I", "]">>, args |-> <<ValArg(BE(5, 4))>>] }
ScanLeads == { << >>, <<"n">>, <<".">>, <<"I">>, <<".", ".">> }

GrammarInit ==
  /\ data = pn_data(InitialCapacity)
  /\ src = TreeSrc
  /\ point = [parent |-> 0, current |-> 0]
  /\ out = NoOut
  /\ shadow = FALSE

\* r: what pn_data_fill left and returned; first: the index of the first
\* node it was to add
GrammarFilled(r, first, kind) ==
  /\ r.d.size <= MaxGrammarNodes
  /\ data' = r.d
  /\ src' = r.src
  /\ out' = [op |-> "fill", err |-> r.err, kind |-> kind,
             got |-> IF r.d.size >= first THEN r.d.nodes[first].atom.type ELSE "none"]

GrammarFill ==
  /\ ~shadow
  /\ \E f \in GrammarFormats, h \in OptionalEnvs :
       GrammarFilled(pn_data_vfill(data, src, f.fmt, f.args, h), data.size + 1, f.kind)
  /\ UNCHANGED <<point, shadow>>

\* r: the fill of the lead and of the unknown character; lead: the fill of
\* the lead alone
GrammarRefused(r, lead) ==
  /\ r.d.size <= MaxGrammarNodes
  /\ data' = r.d
  /\ src' = r.src
  /\ out' = [op |-> "refused", err |-> r.err, lead |-> Shape(lead.d)]

GrammarFillUnknown ==
  /\ ~shadow
  /\ \E f \in FillLeads, x \in FillUnknown, h \in OptionalEnvs :
       GrammarRefused(pn_data_vfill(data, src, f.fmt \o <<x>>, f.args, h),
                      pn_data_vfill(data, src, f.fmt, f.args, h))
  /\ UNCHANGED <<point, shadow>>

\* r: the scan of the lead and of the unknown character; lead: the scan of
\* the lead alone
GrammarScanned(r, lead) ==
  /\ data' = r.d
  /\ out' = [op |-> "scanned", err |-> r.err, outs |-> r.outs, lead |-> lead.outs,
             at |-> pn_data_point(r.d), leadat |-> pn_data_point(lead.d)]

GrammarScanUnknown ==
  /\ data.size > 0
  /\ \E lead \in ScanLeads, x \in ScanUnknown :
       GrammarScanned(pn_data_vscan(data, pn_data(0), lead \o <<x>>, FALSE, Calm),
                      pn_data_vscan(data, pn_data(0), lead, FALSE, Calm))
  /\ shadow' = TRUE
  /\ UNCHANGED <<src, point>>

GrammarNext == GrammarFill \/ GrammarFillUnknown \/ GrammarScanUnknown

SpecGrammar == GrammarInit /\ [][GrammarNext]_vars

\* C25: a fill of each code of the grammar table returns 0 and produces a
\* node of the kind listed for the code; a fill and a scan of a format that
\* ends in a character of no code return the argument error and leave what
\* the codes before it wrote or scanned.
C25_GrammarShared ==
  /\ out.op = "fill" => out.err = "OK" /\ out.got = out.kind
  /\ out.op = "refused" => out.err = "PN_ARG_ERR" /\ Shape(data) = out.lead
  /\ out.op = "scanned" =>
       out.err = "PN_ARG_ERR" /\ out.outs = out.lead /\ out.at = out.leadat
(***************************************************************************)
(* SpecFrame: src is built, copied into data, and then changed by further  *)
(* puts, a fill and a clear while its store grows and moves.  shadow holds *)
(* the structure of data right after the copy.                             *)
(***************************************************************************)
MaxFrameNodes == 3
MaxFrameBytes == 100

\* the kinds of the slices put
FrameKinds == {"PN_STRING", "PN_BINARY"}

FrameInit ==
  /\ data = pn_data(InitialCapacity)
  /\ src = pn_data(InitialCapacity)
  /\ point = [parent |-> 0, current |-> 0]
  /\ out = NoOut
  /\ shadow = << >>

\* pn_data_put_binary / put_string / put_symbol on src, before and after
\* the copy
FramePutBytes ==
  /\ src.size < MaxFrameNodes
  /\ \E type \in FrameKinds, content \in InternContents, h \in Movers :
       /\ Len(pn_data_put_var(src, type, pn_bytes(content), h).d.buf.bytes)
            <= MaxFrameBytes
       /\ src' = pn_data_put_var(src, type, pn_bytes(content), h).d
  /\ UNCHANGED <<data, point, out, shadow>>

FramePutNull ==
  /\ src.size < MaxFrameNodes
  /\ src' = pn_data_put_null(src)
  /\ UNCHANGED <<data, point, out, shadow>>

FrameCopy ==
  /\ out = NoOut
  /\ \E h \in Movers :
       /\ data' = pn_data_copy(data, src, h).d
       /\ src' = pn_data_copy(data, src, h).src
       /\ out' = [op |-> "copy", err |-> pn_data_copy(data, src, h).err]
       /\ shadow' = Shape(pn_data_copy(data, src, h).d)
  /\ UNCHANGED point

\* pn_data_fill(src, "[S]", s) after the copy
FrameFill ==
  /\ out # NoOut /\ src.size + 2 <= MaxFrameNodes
  /\ \E content \in InternContents, h \in Movers :
       /\ Len(src.buf.bytes) + Len(content) <= MaxFrameBytes
       /\ src' = pn_data_vfill(src, pn_data(0), <<"[", "S", "]">>,
                               <<BytesArg(content)>>, h).d
  /\ UNCHANGED <<data, point, out, shadow>>

\* pn_data_rewind(src): the puts that follow write over its nodes
FrameRewind ==
  /\ out # NoOut
  /\ src' = pn_data_rewind(src)
  /\ UNCHANGED <<data, point, out, shadow>>

FrameClear ==
  /\ out # NoOut
  /\ src' = pn_data_clear(src)
  /\ UNCHANGED <<data, point, out, shadow>>

FrameNext ==
  \/ FramePutBytes \/ FramePutNull \/ FrameCopy \/ FrameFill \/ FrameRewind
  \/ FrameClear

SpecFrame == FrameInit /\ [][FrameNext]_vars

\* d as it reads once memory outside it has changed: a slice that points
\* outside the store of d no longer reads as what it did
Own(d) ==
  [d EXCEPT !.nodes =
     [i \in 1..d.size |->
        IF d.nodes[i].atom.type \in BytesKinds /\ d.nodes[i].atom.start.kind # "store"
        THEN [d.nodes[i] EXCEPT !.atom.start = NullPtr]
        ELSE d.nodes[i]]]

\* C26: once src is copied into data, puts, fills and a clear of src and the
\* growth of its store leave data as the copy left it: its nodes, their
\* kinds and values, and the bytes of its binaries, strings and symbols,
\* none of which lies outside the store of data.
C26_CopyIndependent ==
  out.op = "copy" /\ out.err = "OK" => Shape(Own(data)) = shadow

\* the copy holds a string, and the source has since been cleared and
\* refilled with other bytes in a store that has moved
C26_Witness ==
  /\ out.op = "copy" /\ out.err = "OK"
  /\ \E n \in 1..data.size : data.nodes[n].atom.type \in BytesKinds
  /\ src.buf.base > 0 /\ src.size > 0
  /\ Shape(src) # shadow
  /\ Len(shadow) = 2
(***************************************************************************)
(* SpecLeaf: one leaf value of any kind is put into an empty tree, the     *)
(* tree is encoded and the bytes are decoded into another empty tree.      *)
(***************************************************************************)
\* payloads of a fixed-width kind: zero, one, 200, a value that fills every
\* byte and one with distinct bytes
LeafPayloads(w) ==
  {Rep(0, w), BE(1, w), BE(200, w), Rep(255, w), [i \in 1..w |-> 15 * i + 1]}

\* the values put: every fixed-width kind with its payloads, and empty and
\* short binaries, strings and symbols
LeafValues ==
  { [type |-> "PN_NULL", val |-> << >>],
    [type |-> "PN_BOOL", val |-> <<0>>],
    [type |-> "PN_BOOL", val |-> <<1>>] }
  \cup { [type |-> t, val |-> v] : t \in {"PN_UBYTE", "PN_BYTE"}, v \in LeafPayloads(1) }
  \cup { [type |-> t, val |-> v] : t \in {"PN_USHORT", "PN_SHORT"}, v \in LeafPayloads(2) }
  \cup { [type |-> t, val |-> v] :
         t \in {"PN_UINT", "PN_INT", "PN_CHAR", "PN_FLOAT", "PN_DECIMAL32"},
         v \in LeafPayloads(4) }
  \cup { [type |-> t, val |-> v] :
         t \in {"PN_ULONG", "PN_LONG", "PN_TIMESTAMP", "PN_DOUBLE", "PN_DECIMAL64"},
         v \in LeafPayloads(8) }
  \cup { [type |-> t, val |-> v] : t \in {"PN_DECIMAL128", "PN_UUID"},
                                   v \in LeafPayloads(16) }
  \cup { [type |-> t, val |-> v] : t \in BytesKinds, v \in {<< >>, <<97>>, <<97, 0, 255>>} }

LeafInit ==
  /\ data = pn_data(InitialCapacity)
  /\ src = pn_data(0)
  /\ point = [parent |-> 0, current |-> 0]
  /\ out = NoOut
  /\ shadow = << >>

\* pn_data_put_<kind>(data, v)
LeafPut ==
  /\ data.size = 0
  /\ \E leaf \in LeafValues :
       /\ data' = GenPut(data, leaf)
       /\ shadow' = leaf
  /\ UNCHANGED <<src, point, out>>

LeafRoundTrip ==
  /\ out = NoOut /\ data.size = 1
  /\ \E h \in Movers, capacity \in {1, TreeCapacity}, junk \in {0, 7} :
       /\ out' = Decoded(pn_data_encode(data, Ample, junk),
                         pn_data_decode(pn_data(capacity), Wire(data, junk), h, junk))
       /\ data' = pn_data_encode(data, Ample, junk).d
  /\ UNCHANGED <<src, point, shadow>>

LeafNext == LeafPut \/ LeafRoundTrip

SpecLeaf == LeafInit /\ [][LeafNext]_vars

\* C27: the encoding of a leaf of any kind put into an empty tree decodes to
\* one node of the same kind with the same payload byte for byte, and the
\* decode consumes exactly the bytes the encode produced.
C27_LeafRoundTrip ==
  out.op = "roundtrip" =>
    /\ out.enc = "OK" /\ out.dec = "OK"
    /\ out.n = out.len
    /\ out.tree.size = 1
    /\ Shape(out.tree) = <<[depth |-> 0, type |-> shadow.type, val |-> shadow.val,
                            children |-> 0, described |-> FALSE, elem |-> PN_0]>>

\* a uuid with distinct bytes has made the round trip
C27_Witness ==
  /\ out.op = "roundtrip"
  /\ shadow = [type |-> "PN_UUID", val |-> [i \in 1..16 |-> 15 * i + 1]]
  /\ out.len = 17
(***************************************************************************)
(* SpecReplay: a sequence of puts, fills, enters and exits is applied to   *)
(* an empty tree, the tree is rewound, and the same sequence is applied    *)
(* again, one call at a time.  shadow holds the sequence and, once the     *)
(* tree is rewound, its structure and encoding before the replay; out      *)
(* holds what the last call found at the cursor and the position in the    *)
(* replay.                                                                 *)
(***************************************************************************)
MaxReplayNodes == 4
MaxReplayCalls == 5

ReplayCalls == {"null", "list", "string", "fill", "enter", "exit"}

\* the kind of the node a put writes
ReplayKind == [null |-> "PN_NULL", list |-> "PN_LIST", string |-> "PN_STRING"]

\* the tree after one call of the sequence
Replayed(d, call) ==
  CASE call = "null" -> pn_data_put_null(d)
    [] call = "list" -> pn_data_put_list(d)
    [] call = "string" -> pn_data_put_var(d, "PN_STRING", pn_bytes(<<97, 98>>), Calm).d
    [] call = "fill" ->
         pn_data_vfill(d, pn_data(0), <<"[", "I", "]">>, <<ValArg(BE(5, 4))>>, Calm).d
    [] call = "enter" -> pn_data_enter(d)
    [] call = "exit" -> pn_data_exit(d)

\* what a call finds: for a put, the node that follows the cursor (0: none)
\* with its links and the child count of the parent
Found(d, call, n, pc) ==
  [op |-> IF call \in DOMAIN ReplayKind THEN "put" ELSE "move",
   call |-> call, pc |-> pc, target |-> n, size |-> d.size,
   next |-> IF n # 0 THEN d.nodes[n].next ELSE 0,
   prev |-> IF n # 0 THEN d.nodes[n].prev ELSE 0,
   parent |-> IF n # 0 THEN d.nodes[n].parent ELSE 0,
   pchildren |-> IF d.parent # 0 THEN d.nodes[d.parent].children ELSE 0]

ReplayInit ==
  /\ data = pn_data(InitialCapacity)
  /\ src = pn_data(0)
  /\ point = [parent |-> 0, current |-> 0]
  /\ out = [op |-> "none", pc |-> 0]
  /\ shadow = [script |-> << >>, shape |-> << >>, wire |-> << >>]

ReplayBuild ==
  /\ out.pc = 0 /\ Len(shadow.script) < MaxReplayCalls
  /\ \E call \in ReplayCalls :
       /\ call = "enter" => pn_data_enter_ok(data)
       /\ call = "exit" => pn_data_exit_ok(data)
       /\ Replayed(data, call).size <= MaxReplayNodes
       /\ data' = Replayed(data, call)
       /\ out' = Found(data, call, NextTarget(data), 0)
       /\ shadow' = [shadow EXCEPT !.script = Append(@, call)]
  /\ UNCHANGED <<src, point>>

ReplayRewind ==
  /\ out.pc = 0 /\ shadow.script # << >>
  /\ data' = pn_data_rewind(data)
  /\ out' = [op |-> "rewind", pc |-> 1]
  /\ shadow' = [shadow EXCEPT !.shape = Shape(data), !.wire = Wire(data, 0)]
  /\ UNCHANGED <<src, point>>

ReplayStep ==
  /\ out.pc \in 1..Len(shadow.script)
  /\ data' = Replayed(data, shadow.script[out.pc])
  /\ out' = Found(data, shadow.script[out.pc], NextTarget(data), out.pc + 1)
  /\ UNCHANGED <<src, point, shadow>>

ReplayNext == ReplayBuild \/ ReplayRewind \/ ReplayStep

SpecReplay == ReplayInit /\ [][ReplayNext]_vars

\* C28: a put at a cursor that has a following node writes over that node:
\* no node is allocated, the node loses its children and keeps its sibling
\* links, and the child count of its parent is unchanged.  A sequence of
\* puts and fills applied again after a rewind leaves the same tree and the
\* same encoding.
C28_ReuseReplay ==
  /\ out.op = "put" /\ out.target # 0 =>
       /\ data.size = out.size /\ data.current = out.target
       /\ data.nodes[out.target].atom.type = ReplayKind[out.call]
       /\ data.nodes[out.target].down = 0 /\ data.nodes[out.target].children = 0
       /\ data.nodes[out.target].next = out.next
       /\ data.nodes[out.target].prev = out.prev
       /\ data.nodes[out.target].parent = out.parent
       /\ data.parent # 0 => data.nodes[data.parent].children = out.pchildren
  /\ out.pc = Len(shadow.script) + 1 =>
       Shape(data) = shadow.shape /\ Wire(data, 0) = shadow.wire

\* the replay of list, enter, string, exit, null is complete: it wrote over
\* the list, which had a child, and over the null that follows it
C28_Witness ==
  /\ shadow.script = <<"list", "enter", "string", "exit", "null">>
  /\ out.pc = 6 /\ out.op = "put" /\ out.target = 3
  /\ data.size = 4
(***************************************************************************)
(* SpecNest: nulls, uints, lists, maps and arrays are put at any depth and *)
(* the tree is encoded once.  src holds the tree as encode leaves it (with the  *)
(* start of every compound it reserved), out the bytes written.            *)
(***************************************************************************)
MaxNestNodes == 4

NestElements == {"PN_NULL", "PN_UINT", "PN_LIST"}

Compounds == {"PN_LIST", "PN_MAP", "PN_ARRAY"}

NestInit ==
  /\ data = pn_data(InitialCapacity)
  /\ src = pn_data(0)
  /\ point = [parent |-> 0, current |-> 0]
  /\ out = NoOut
  /\ shadow = 0

NestPutLeaf ==
  /\ out = NoOut /\ data.size < MaxNestNodes
  /\ \E leaf \in {[type |-> "PN_NULL", val |-> << >>],
                  [type |-> "PN_UINT", val |-> BE(5, 4)]} :
       data' = pn_data_put_fixed(data, leaf.type, leaf.val)
  /\ UNCHANGED <<src, point, out, shadow>>

NestPutList ==
  /\ out = NoOut /\ data.size < MaxNestNodes
  /\ data' = pn_data_put_list(data)
  /\ UNCHANGED <<src, point, out, shadow>>

NestPutMap ==
  /\ out = NoOut /\ data.size < MaxNestNodes
  /\ data' = pn_data_put_map(data)
  /\ UNCHANGED <<src, point, out, shadow>>

NestPutArray ==
  /\ out = NoOut /\ data.size < MaxNestNodes
  /\ \E described \in BOOLEAN, type \in NestElements :
       data' = pn_data_put_array(data, described, type)
  /\ UNCHANGED <<src, point, out, shadow>>

NestEnter ==
  /\ out = NoOut /\ pn_data_enter_ok(data)
  /\ data.nodes[data.current].atom.type \in Compounds
  /\ data.nodes[data.current].down = 0
  /\ data' = pn_data_enter(data)
  /\ UNCHANGED <<src, point, out, shadow>>

NestExit ==
  /\ out = NoOut /\ pn_data_exit_ok(data)
  /\ data' = pn_data_exit(data)
  /\ UNCHANGED <<src, point, out, shadow>>

NestEncoded(r) ==
  /\ src' = r.d
  /\ out' = [op |-> "encode", err |-> r.err, wire |-> SubSeq(r.out, 1, r.pos)]
  /\ UNCHANGED <<data, point, shadow>>

\* every described array holds its descriptor
Described(d) ==
  \A n \in Reachable(d) :
    d.nodes[n].atom.type = "PN_ARRAY" /\ d.nodes[n].described =>
      d.nodes[n].children > 0

NestEncode ==
  /\ out = NoOut /\ data.size > 0 /\ Described(data)
  /\ \E junk \in {0, 7} : NestEncoded(pn_data_encode(data, Ample, junk))

NestNext ==
  \/ NestPutLeaf \/ NestPutList \/ NestPutMap \/ NestPutArray
  \/ NestEnter \/ NestExit \/ NestEncode

SpecNest == NestInit /\ [][NestNext]_vars

\* The bytes of an encoding read by their counts alone, the size fields
\* skipped: the offset just past a value.  Past the end of w a byte reads 0.
At(w, i) == IF i \in 1..Len(w) THEN w[i] ELSE 0

\* the four-byte count or size at offset p (2^24 stands for all above it)
Count4(w, p) ==
  IF At(w, p + 1) # 0 THEN 16777216
  ELSE ToNat(<<At(w, p + 2), At(w, p + 3), At(w, p + 4)>>)

RECURSIVE PastPayload(_, _, _)
RECURSIVE PastValue(_, _)
RECURSIVE PastValues(_, _, _)
RECURSIVE PastPayloads(_, _, _, _)

\* past the count values that start at offset p
PastValues(w, p, count) ==
  IF count = 0 \/ p >= Len(w) THEN p
  ELSE PastValues(w, PastValue(w, p), count - 1)

\* past the count payloads of one code that start at offset p
PastPayloads(w, p, code, count) ==
  IF count = 0 \/ p > Len(w) THEN p
  ELSE PastPayloads(w, PastPayload(w, p, code), code, count - 1)

\* past the elements of an array: p is the offset of the element code
PastElements(w, p, count) == PastPayloads(w, p + 1, At(w, p + 1), count)

\* past the payload, at offset p, of a value of the code
PastPayload(w, p, code) ==
  CASE code \in {PNE_LIST32, PNE_MAP32} ->
         IF Count4(w, p + 4) > Len(w) THEN Len(w) + 1
         ELSE PastValues(w, p + 8, Count4(w, p + 4))
    [] code = PNE_ARRAY32 ->
         IF Count4(w, p + 4) > Len(w) THEN Len(w) + 1
         ELSE PastElements(w, IF At(w, p + 9) = PNE_DESCRIPTOR
                              THEN PastValue(w, p + 9) ELSE p + 8,
                           Count4(w, p + 4))
    [] OTHER -> p + CodeWidth(code)

PastValue(w, p) == PastPayload(w, p + 1, At(w, p + 1))

\* the bytes the encoding of the compound n takes after its size field
Body(w, d, n) ==
  PastPayload(w, d.nodes[n].start, pn_type2code(d.nodes[n].atom.type))
    - (d.nodes[n].start + 4)

\* C29: after an encode, the size field of every list, map and array of
\* the tree, at any depth, holds the number of bytes written after it up to
\* the end of the encoding of that compound.
C29_SizeSpansBody ==
  out.op = "encode" /\ out.err = "OK" =>
    \A n \in Reachable(src) :
      src.nodes[n].atom.type \in Compounds =>
        Count4(out.wire, src.nodes[n].start) = Body(out.wire, src, n)
(***************************************************************************)
(* SpecResume: whole scans of a tree of several top-level values.  The     *)
(* format is a lead of value codes, one construct (a structural code with  *)
(* the codes that belong to it) and one value code that follows.  out      *)
(* holds the locals of pn_data_vscan where the construct ends and the      *)
(* cursor after the code that follows.                                     *)
(***************************************************************************)
ResumeTrees ==
  { pn_data_vfill(pn_data(InitialCapacity), pn_data(0), f, a, Calm).d :
      <<f, a>> \in
        { <<<<"n", "S", "n">>, <<BytesArg(HelloBytes)>>>>,
          <<<<"[", "n", "S", "]", "S", "n">>,
            <<BytesArg(HelloBytes), BytesArg(HelloBytes)>>>>,
          <<<<"{", "n", "n", "}", "n", "S">>, <<BytesArg(HelloBytes)>>>>,
          <<<<"@", "T", "[", "n", "]", "n", "S">>,
            <<TypeArg("PN_NULL"), BytesArg(HelloBytes)>>>>,
          <<<<"D", "n", "S", "n", "S">>,
            <<BytesArg(HelloBytes), BytesArg(HelloBytes)>>>> } }

ResumeLeads == { << >>, <<".">> }
ResumeFollows == {"n", "S", "."}

\* D and its two values
DescribedConstructs ==
  { <<"D", ".", "S">>, <<"D", "n", "n">>, <<"D", ".", "[", "n", "]">>,
    <<"D", "s", "[", "]">> }
\* @ and its bracketed body
ArrayConstructs == { <<"@", "[", "]">>, <<"@", "[", "n", "]">>, <<"@", "[", "n", "n", "]">> }
\* [ to its ]
ListConstructs ==
  { <<"[", "]">>, <<"[", "n", "S", "]">>, <<"[", "[", "n", "]", "]">>,
    <<"[", "D", ".", ".", "]">> }
\* { to its }
MapConstructs == { <<"{", "}">>, <<"{", "n", "n", "}">>, <<"{", "[", "]", "n", "}">> }

\* the kind a structural code looks for
ResumeKind ==
  [c \in {"D", "@", "[", "{"} |->
     CASE c = "D" -> PN_DESCRIPTOR [] c = "@" -> "PN_ARRAY"
       [] c = "[" -> "PN_LIST" [] c = "{" -> "PN_MAP"]

ResumeInit ==
  /\ data \in ResumeTrees
  /\ src = pn_data(0)
  /\ point = [parent |-> 0, current |-> 0]
  /\ out = NoOut
  /\ shadow = << >>

\* led: the scan of the lead; ended: that of the lead and the construct;
\* went: that of the whole format.  e is the element the construct meets.
Resumed(led, ended, went, e, construct, follow) ==
  /\ data' = went.d
  /\ out' = [op |-> "scan", construct |-> construct, follow |-> follow,
             element |-> e,
             mismatch |-> e # 0 /\ data.nodes[e].atom.type # ResumeKind[construct[1]],
             sibling |-> IF e # 0 THEN data.nodes[e].next ELSE 0,
             resume_count |-> ended.resume_count, err |-> ended.err,
             ended |-> pn_data_point(ended.d), went |-> pn_data_point(went.d),
             scanned |-> went.scanned]
  /\ shadow' = led.outs

Resume(lead, construct, follow) ==
  Resumed(pn_data_vscan(data, src, lead, FALSE, Calm),
          pn_data_vscan(data, src, lead \o construct, FALSE, Calm),
          pn_data_vscan(data, src, lead \o construct \o <<follow>>, FALSE, Calm),
          NextTarget(pn_data_vscan(data, src, lead, FALSE, Calm).d),
          construct, follow)

ResumeDescribed ==
  /\ \E lead \in ResumeLeads, construct \in DescribedConstructs, follow \in ResumeFollows :
       Resume(lead, construct, follow)
  /\ UNCHANGED <<src, point>>

ResumeArray ==
  /\ \E lead \in ResumeLeads, construct \in ArrayConstructs, follow \in ResumeFollows :
       Resume(lead, construct, follow)
  /\ UNCHANGED <<src, point>>

ResumeList ==
  /\ \E lead \in ResumeLeads, construct \in ListConstructs, follow \in ResumeFollows :
       Resume(lead, construct, follow)
  /\ UNCHANGED <<src, point>>

ResumeMap ==
  /\ \E lead \in ResumeLeads, construct \in MapConstructs, follow \in ResumeFollows :
       Resume(lead, construct, follow)
  /\ UNCHANGED <<src, point>>

ResumeNext == ResumeDescribed \/ ResumeArray \/ ResumeList \/ ResumeMap

SpecResume == ResumeInit /\ [][ResumeNext]_vars

\* C30: when a structural code of a scan meets an element of another kind,
\* the suspension ends with the last code of its construct (D and its two
\* values, @ and its bracketed body, [ to its ], { to its }): there
\* resume_count is zero and the cursor is on the element, and the code that
\* follows the construct is matched against the next sibling of the element.
C30_ResumeAtEnd ==
  out.op = "scan" /\ out.mismatch =>
    /\ out.err = "OK" /\ out.resume_count = 0
    /\ out.ended = [parent |-> 0, current |-> out.element]
    /\ out.sibling # 0 =>
         /\ out.went = [parent |-> 0, current |-> out.sibling]
         /\ out.follow = "." => out.scanned
(***************************************************************************)
(* SpecBracket: whole scans whose format is a lead of value codes, a       *)
(* bracket with the codes inside it and its closing bracket, and one value *)
(* code that follows.  out holds the cursor where the bracket closes and   *)
(* the cursor after the code that follows.                                 *)
(***************************************************************************)
BracketTrees ==
  { pn_data_vfill(pn_data(InitialCapacity), pn_data(0), f, a, Calm).d :
      <<f, a>> \in
        { <<<<"[", "n", "S", "]", "S", "n">>,
            <<BytesArg(HelloBytes), BytesArg(HelloBytes)>>>>,
          <<<<"[", "D", "n", "S", "]", "n", "S">>,
            <<BytesArg(HelloBytes), BytesArg(HelloBytes)>>>>,
          <<<<"[", "n", "D", "n", "S", "]", "S">>,
            <<BytesArg(HelloBytes), BytesArg(HelloBytes)>>>>,
          <<<<"n", "[", "[", "n", "]", "n", "]", "n">>, << >>>>,
          <<<<"{", "n", "n", "}", "n", "S">>, <<BytesArg(HelloBytes)>>>>,
          <<<<"{", "n", "D", "n", "S", "}", "n">>, <<BytesArg(HelloBytes)>>>>,
          <<<<"n", "{", "n", "[", "n", "]", "}", "S">>,
            <<BytesArg(HelloBytes)>>>> } }

BracketLeads == { << >>, <<".">> }
BracketFollows == {"n", "S", "."}

\* the codes scanned inside the bracket
BracketInsides ==
  { << >>, <<"n">>, <<"n", "S">>, <<".", ".">>, <<".", ".", ".">>,
    <<"D", ".", "S">>, <<"n", "D", ".", "S">>, <<"[", "n", "]">>,
    <<"[", "n", "]", "n">>, <<"n", "[", "n", "]">> }

BracketInit ==
  /\ data \in BracketTrees
  /\ src = pn_data(0)
  /\ point = [parent |-> 0, current |-> 0]
  /\ out = NoOut
  /\ shadow = << >>

\* closed: the scan up to the closing bracket; went: that of the whole
\* format; e: the element the opening bracket meets
Bracketed(closed, went, e, open, inside, follow) ==
  /\ data' = went.d
  /\ out' = [op |-> "scan", open |-> open, inside |-> inside, follow |-> follow,
             element |-> e,
             match |-> e # 0 /\ data.nodes[e].atom.type = ResumeKind[open],
             parent |-> IF e # 0 THEN data.nodes[e].parent ELSE 0,
             sibling |-> IF e # 0 THEN data.nodes[e].next ELSE 0,
             err |-> closed.err,
             closed |-> pn_data_point(closed.d), went |-> pn_data_point(went.d)]
  /\ shadow' = went.outs

Bracket(lead, open, inside, close, follow) ==
  Bracketed(pn_data_vscan(data, src, lead \o <<open>> \o inside \o <<close>>,
                          FALSE, Calm),
            pn_data_vscan(data, src,
                          lead \o <<open>> \o inside \o <<close, follow>>,
                          FALSE, Calm),
            NextTarget(pn_data_vscan(data, src, lead, FALSE, Calm).d),
            open, inside, follow)

BracketList ==
  /\ \E lead \in BracketLeads, inside \in BracketInsides, follow \in BracketFollows :
       Bracket(lead, "[", inside, "]", follow)
  /\ UNCHANGED <<src, point>>

BracketMap ==
  /\ \E lead \in BracketLeads, inside \in BracketInsides, follow \in BracketFollows :
       Bracket(lead, "{", inside, "}", follow)
  /\ UNCHANGED <<src, point>>

BracketNext == BracketList \/ BracketMap

SpecBracket == BracketInit /\ [][BracketNext]_vars

\* C31: when the [ or { of a scan meets a list or a map and enters it, the
\* matching ] or } leaves the cursor on that list or map, with the parent it
\* had, whatever was scanned inside (a described value opened with D
\* included), and the code after the bracket is matched against the next
\* sibling of the list or map.
C31_CloseOnComposite ==
  out.op = "scan" /\ out.match =>
    /\ out.err = "OK"
    /\ out.closed = [parent |-> out.parent, current |-> out.element]
    /\ out.sibling # 0 => out.went = [parent |-> out.parent, current |-> out.sibling]
(***************************************************************************)
(* SpecGather: whole scans whose format is a path of codes to a position   *)
(* of the tree and then ?C, which appends to src.  out holds what the scan *)
(* met and left, shadow the structure of src before the scan.              *)
(***************************************************************************)
MaxGatherNodes == 6

GatherTrees ==
  { pn_data_vfill(pn_data(InitialCapacity), pn_data(0), f, a, Calm).d :
      <<f, a>> \in
        { <<<<"n", "S", "n">>, <<BytesArg(HelloBytes)>>>>,
          <<<<"S", "n", "S">>, <<BytesArg(HelloBytes), BytesArg(<<97>>)>>>>,
          <<<<"[", "n", "S", "]", "S", "n">>,
            <<BytesArg(HelloBytes), BytesArg(HelloBytes)>>>>,
          <<<<"[", "[", "n", "]", "]", "S">>, <<BytesArg(HelloBytes)>>>>,
          <<<<"n", "[", "[", "n", "]", "]", "S">>, <<BytesArg(HelloBytes)>>>>,
          <<<<"{", "S", "[", "n", "]", "}", "n">>, <<BytesArg(HelloBytes)>>>>,
          <<<<"D", "S", "[", "n", "]", "n">>, <<BytesArg(HelloBytes)>>>> } }

GatherPaths ==
  { << >>, <<".">>, <<".", ".">>, <<".", ".", ".">>, <<"[">>, <<"[", ".">>,
    <<"[", ".", ".">>, <<"[", "[">>, <<"{">>, <<"{", ".">>, <<"D">>, <<"D", ".">> }

GatherInit ==
  /\ data \in GatherTrees
  /\ src = pn_data(InitialCapacity)
  /\ point = [parent |-> 0, current |-> 0]
  /\ out = NoOut
  /\ shadow = << >>

\* led: the scan of the path; r: the scan of the path and ?C; e: the element
\* the code after the path would visit
Gathered(led, r, e, path) ==
  /\ r.dst.size <= MaxGatherNodes
  /\ data' = r.d
  /\ src' = r.dst
  /\ shadow' = Shape(src)
  /\ out' = [op |-> "scan", path |-> path, err |-> r.err,
             suspended |-> led.resume_count > 0,
             element |-> e,
             null |-> e # 0 /\ data.nodes[e].atom.type = "PN_NULL",
             parent |-> IF e # 0 THEN data.nodes[e].parent ELSE 0,
             value |-> WalkTop(data, e, 1),
             flags |-> SelectSeq(r.outs, LAMBDA o : o.code = "?"),
             led |-> pn_data_point(led.d), went |-> pn_data_point(r.d)]

Gather ==
  /\ \E path \in GatherPaths :
       Gathered(pn_data_vscan(data, src, path, FALSE, Calm),
                pn_data_vscan(data, src, path \o <<"?", "C">>, FALSE, Calm),
                NextTarget(pn_data_vscan(data, src, path, FALSE, Calm).d),
                path)
  /\ UNCHANGED point

GatherNext == Gather

SpecGather == GatherInit /\ [][GatherNext]_vars

\* C32: a C that is not suspended appends the element the next code would
\* visit, with its subtree, after what the output tree holds, and moves the
\* scan cursor onto that element, at any depth and at the top level right
\* after the rewind; its ? flag is true exactly when an element was
\* appended, and a null or no element appends nothing.
C32_GatherElement ==
  out.op = "scan" /\ ~out.suspended =>
    /\ out.err = "OK"
    /\ Shape(src) = shadow \o (IF out.null THEN << >> ELSE out.value)
    /\ out.flags = <<[code |-> "?", val |-> out.element # 0 /\ ~out.null]>>
    /\ out.went = IF out.element # 0
                  THEN [parent |-> out.parent, current |-> out.element]
                  ELSE out.led
(***************************************************************************)
(* SpecRebuild: encoded values are decoded into a tree, at its top level   *)
(* or inside a list that was put and entered.  out holds what the decode   *)
(* was given and returned, with the size and the cursor of the tree before *)
(* it.                                                                     *)
(***************************************************************************)
MaxRebuildNodes == 5

\* a described array of uints whose descriptor is a uint
DescribedUints ==
  pn_data_exit(
    pn_data_put_fixed(
      pn_data_put_fixed(
        pn_data_enter(pn_data_put_array(pn_data(InitialCapacity), TRUE, "PN_UINT")),
        "PN_UINT", BE(7, 4)),
      "PN_UINT", BE(5, 4)))

\* values as trees, each of one top-level node
RebuildTrees ==
  { pn_data_vfill(pn_data(InitialCapacity), pn_data(0), f, a, Calm).d :
      <<f, a>> \in
        { <<<<"n">>, << >>>>,
          <<<<"S">>, <<BytesArg(HelloBytes)>>>>,
          <<<<"I">>, <<ValArg(BE(300, 4))>>>>,
          <<<<"[", "n", "S", "]">>, <<BytesArg(HelloBytes)>>>>,
          <<<<"[", "[", "n", "]", "]">>, << >>>>,
          <<<<"{", "S", "n", "}">>, <<BytesArg(HelloBytes)>>>>,
          <<<<"D", "n", "S">>, <<BytesArg(HelloBytes)>>>>,
          <<<<"@", "T", "[", "I", "I", "]">>,
            <<TypeArg("PN_UINT"), ValArg(BE(5, 4)), ValArg(BE(6, 4))>>>> } }
    \cup {DescribedUints}

\* an array of one uint whose element code follows two descriptors, alone
\* and as the element of a list
TwiceDescribed ==
  Sized(PNE_ARRAY32, BE(1, 4) \o <<PNE_DESCRIPTOR, PNE_NULL, PNE_DESCRIPTOR,
                                  PNE_NULL, PNE_UINT>> \o BE(5, 4))

\* the encodings decoded, each with the structure of the value it holds
\* (none: the value cannot be rebuilt)
RebuildValues ==
  { [wire |-> Wire(t, 0), value |-> Shape(t)] : t \in RebuildTrees }
    \cup { [wire |-> TwiceDescribed, value |-> << >>],
           [wire |-> Sized(PNE_LIST32, BE(1, 4) \o TwiceDescribed),
            value |-> << >>] }

RebuildInit ==
  /\ data = pn_data(InitialCapacity)
  /\ src = pn_data(0)
  /\ point = [parent |-> 0, current |-> 0]
  /\ out = NoOut
  /\ shadow = << >>

RebuildPutList ==
  /\ data.size < MaxRebuildNodes
  /\ data' = pn_data_enter(pn_data_put_list(data))
  /\ out' = NoOut
  /\ UNCHANGED <<src, point, shadow>>

RebuildExit ==
  /\ pn_data_exit_ok(data)
  /\ data' = pn_data_exit(data)
  /\ out' = NoOut
  /\ UNCHANGED <<src, point, shadow>>

RebuildDecoded(r, v) ==
  /\ r.d.size <= MaxRebuildNodes
  /\ data' = r.d
  /\ out' = [op |-> "decode", err |-> r.err, n |-> r.n, len |-> Len(v.wire),
             value |-> v.value, size |-> data.size, parent |-> data.parent]

RebuildDecode ==
  /\ \E v \in RebuildValues :
       RebuildDecoded(pn_data_decode(data, v.wire, Calm, 0), v)
  /\ UNCHANGED <<src, point, shadow>>

RebuildNext == RebuildPutList \/ RebuildExit \/ RebuildDecode

SpecRebuild == RebuildInit /\ [][RebuildNext]_vars

\* C33: when decode returns a byte count, the tree holds the whole decoded
\* value as new nodes and the cursor is on the top node of that value, at
\* the level the decode began at; an encoding that cannot be rebuilt, such
\* as an array whose element code follows two descriptors, makes decode
\* return an error.
C33_DecodeWholeOrError ==
  out.op = "decode" /\ out.err = "OK" =>
    /\ out.value # << >>
    /\ data.size = out.size + Len(out.value)
    /\ data.parent = out.parent /\ data.current = out.size + 1
    /\ WalkTop(data, data.current, 1) = out.value
(***************************************************************************)
(* SpecRelocate: nulls are put into trees of several capacities and        *)
(* encoded arrays are decoded after them, with a realloc that moves the    *)
(* node array when it grows or one that extends it in place.  out holds    *)
(* what the decode was given and the size and capacity before it.          *)
(***************************************************************************)
MaxRelocateNodes == 6

RelocateCapacities == {1, 2, 4, TreeCapacity}

\* encoded arrays, each with its element kind: uints; uints described by a
\* null; ulongs described by a list of a null; nulls described by a uint
RelocateArrays ==
  { [wire |-> Sized(PNE_ARRAY32, BE(2, 4) \o <<PNE_UINT>> \o BE(5, 4) \o BE(6, 4)),
     elem |-> "PN_UINT", described |-> FALSE],
    [wire |-> Sized(PNE_ARRAY32, BE(1, 4) \o <<PNE_DESCRIPTOR, PNE_NULL, PNE_UINT>>
                                           \o BE(5, 4)),
     elem |-> "PN_UINT", described |-> TRUE],
    [wire |-> Sized(PNE_ARRAY32,
                    BE(1, 4) \o <<PNE_DESCRIPTOR>>
                             \o Sized(PNE_LIST32, BE(1, 4) \o <<PNE_NULL>>)
                             \o <<PNE_ULONG>> \o BE(9, 8)),
     elem |-> "PN_ULONG", described |-> TRUE],
    [wire |-> Sized(PNE_ARRAY32, BE(2, 4) \o <<PNE_DESCRIPTOR, PNE_UINT>> \o BE(7, 4)
                                           \o <<PNE_NULL>>),
     elem |-> "PN_NULL", described |-> TRUE] }

RelocateInit ==
  /\ data \in {pn_data(c) : c \in RelocateCapacities}
  /\ src = pn_data(0)
  /\ point = [parent |-> 0, current |-> 0]
  /\ out = NoOut
  /\ shadow = << >>

RelocatePutNull ==
  /\ data.size < MaxRelocateNodes
  /\ data' = pn_data_put_null(data)
  /\ out' = NoOut
  /\ UNCHANGED <<src, point, shadow>>

RelocateDecoded(r, a, h) ==
  /\ r.d.size <= MaxRelocateNodes
  /\ data' = r.d
  /\ out' = [op |-> "decode", err |-> r.err, elem |-> a.elem,
             described |-> a.described, moves |-> h.moves,
             size |-> data.size, capacity |-> data.capacity]

RelocateDecode ==
  /\ \E a \in RelocateArrays, h \in Movers :
       RelocateDecoded(pn_data_decode(data, a.wire, h, 0), a, h)
  /\ UNCHANGED <<src, point, shadow>>

RelocateNext == RelocatePutNull \/ RelocateDecode

SpecRelocate == RelocateInit /\ [][RelocateNext]_vars

\* C34: no store goes through a node pointer taken before a node was
\* allocated: whether realloc moves the node array or not, an array rebuilt
\* by decode, plain or described, records the element kind of its encoding.
C34_NoStalePointer ==
  out.op = "decode" =>
    /\ out.err = "OK"
    /\ data.nodes[out.size + 1].atom.type = "PN_ARRAY"
    /\ data.nodes[out.size + 1].described = out.described
    /\ data.nodes[out.size + 1].type = out.elem
(***************************************************************************)
(* SpecArrayKinds: encoded arrays of one or two elements, one for every    *)
(* element code the decoder accepts, are decoded into an empty tree.  out  *)
(* holds the element code and what decode returned.                        *)
(***************************************************************************)
ZeroWidthCodes == {PNE_NULL, PNE_TRUE, PNE_FALSE, PNE_UINT0, PNE_ULONG0, PNE_LIST0}
VariableCodes ==
  {PNE_VBIN8, PNE_STR8_UTF8, PNE_SYM8, PNE_VBIN32, PNE_STR32_UTF8, PNE_SYM32}
CompoundCodes ==
  {PNE_LIST8, PNE_MAP8, PNE_ARRAY8, PNE_LIST32, PNE_MAP32, PNE_ARRAY32}

\* the payload of one element of the code, built on the byte b
ElementPayload(code, b) ==
  CASE code \in ZeroWidthCodes -> << >>
    [] code \in FixedCodes -> Rep(b, FixedCodeRead(code))
    [] code \in VariableCodes -> BE(1, PrefixWidth(code)) \o <<b>>
    [] code \in {PNE_LIST8, PNE_MAP8} -> <<1, 0>>
    [] code \in {PNE_LIST32, PNE_MAP32} -> BE(4, 4) \o BE(0, 4)
    [] code = PNE_ARRAY8 -> <<2, 0, PNE_NULL>>
    [] code = PNE_ARRAY32 -> BE(5, 4) \o BE(0, 4) \o <<PNE_NULL>>

\* an array32 of count elements of the code
ArrayOf(code, count, b) ==
  Sized(PNE_ARRAY32,
        BE(count, 4) \o <<code>> \o ElementPayload(code, b)
          \o (IF count = 2 THEN ElementPayload(code, b) ELSE << >>))

ArrayKindsInit ==
  /\ data = pn_data(InitialCapacity)
  /\ src = pn_data(0)
  /\ point = [parent |-> 0, current |-> 0]
  /\ out = NoOut
  /\ shadow = << >>

ArrayDecoded(r, code, count) ==
  /\ data' = r.d
  /\ out' = [op |-> "decode", err |-> r.err, code |-> code, count |-> count]

ArrayDecodeFixed ==
  /\ \E code \in FixedCodes \cup ZeroWidthCodes, count \in 1..2, b \in {1, 200} :
       ArrayDecoded(pn_data_decode(pn_data(InitialCapacity), ArrayOf(code, count, b),
                                   Calm, 0),
                    code, count)
  /\ UNCHANGED <<src, point, shadow>>

ArrayDecodeVariable ==
  /\ \E code \in VariableCodes, count \in 1..2, b \in {1, 200} :
       ArrayDecoded(pn_data_decode(pn_data(InitialCapacity), ArrayOf(code, count, b),
                                   Calm, 0),
                    code, count)
  /\ UNCHANGED <<src, point, shadow>>

ArrayDecodeCompound ==
  /\ \E code \in CompoundCodes, count \in 1..2 :
       ArrayDecoded(pn_data_decode(pn_data(InitialCapacity), ArrayOf(code, count, 0),
                                   Calm, 0),
                    code, count)
  /\ UNCHANGED <<src, point, shadow>>

ArrayKindsNext == ArrayDecodeFixed \/ ArrayDecodeVariable \/ ArrayDecodeCompound

SpecArrayKinds == ArrayKindsInit /\ [][ArrayKindsNext]_vars

\* C35: after the decode of an encoded array, whatever its element code
\* (the short codes smalluint, smallulong, smallint and smalllong included),
\* every element of the rebuilt array has the kind the array records as its
\* element kind.
C35_ElementsOfRecordedKind ==
  out.op = "decode" =>
    /\ out.err = "OK"
    /\ data.nodes[1].atom.type = "PN_ARRAY"
    /\ data.nodes[1].children = out.count
    /\ \A c \in Elements(data, 1) : data.nodes[c].atom.type = data.nodes[1].type
(***************************************************************************)
(* SpecSmall: the one-byte integer codes are decoded, one value at a time, *)
(* for every payload byte.  out holds the code, the byte and what decode   *)
(* returned.                                                               *)
(***************************************************************************)
SmallCodes == {PNE_SMALLUINT, PNE_SMALLULONG, PNE_SMALLINT, PNE_SMALLLONG}

SmallInit ==
  /\ data = pn_data(InitialCapacity)
  /\ src = pn_data(0)
  /\ point = [parent |-> 0, current |-> 0]
  /\ out = NoOut
  /\ shadow = << >>

SmallDecoded(r, code, b) ==
  /\ data' = r.d
  /\ out' = [op |-> "decode", err |-> r.err, n |-> r.n, code |-> code, byte |-> b]

SmallDecode ==
  /\ \E code \in SmallCodes, b \in 0..255 :
       SmallDecoded(pn_data_decode(pn_data(InitialCapacity), <<code, b>>, Calm, 0),
                    code, b)
  /\ UNCHANGED <<src, point, shadow>>

SmallNext == SmallDecode

SpecSmall == SmallInit /\ [][SmallNext]_vars

\* the value of the byte b read as a signed 8-bit integer
Signed8(b) == IF b >= 128 THEN b - 256 ELSE b

\* C36: the code smallint with the payload byte b decodes to the int of the
\* signed 8-bit value of b and the code smalllong to the long of that value,
\* for every b in 0..255 (0xff is -1).
C36_SmallSigned ==
  out.op = "decode" /\ out.code \in {PNE_SMALLINT, PNE_SMALLLONG} =>
    /\ out.err = "OK" /\ out.n = 2 /\ data.size = 1
    /\ out.code = PNE_SMALLINT =>
         /\ data.nodes[1].atom.type = "PN_INT"
         /\ data.nodes[1].atom.val = BE(Signed8(out.byte), 4)
    /\ out.code = PNE_SMALLLONG =>
         /\ data.nodes[1].atom.type = "PN_LONG"
         /\ data.nodes[1].atom.val = BE(Signed8(out.byte), 8)
(***************************************************************************)
(* SpecSource: a source tree is built and its cursor moved, then it is     *)
(* copied or appended to data once.  point holds the cursor of the source  *)
(* before the call, out what the call returned.                            *)
(***************************************************************************)
MaxSourceNodes == 4
MaxSourceLimit == 2

SourceInit ==
  /\ data = pn_data(InitialCapacity)
  /\ src = pn_data(InitialCapacity)
  /\ point = [parent |-> 0, current |-> 0]
  /\ out = NoOut
  /\ shadow = << >>

SourcePutNull ==
  /\ out = NoOut /\ src.size < MaxSourceNodes /\ NextTarget(src) = 0
  /\ src' = pn_data_put_null(src)
  /\ UNCHANGED <<data, point, out, shadow>>

SourcePutString ==
  /\ out = NoOut /\ src.size < MaxSourceNodes /\ NextTarget(src) = 0
  /\ src' = pn_data_put_var(src, "PN_STRING", pn_bytes(Rep(97, 40)), Calm).d
  /\ UNCHANGED <<data, point, out, shadow>>

SourcePutList ==
  /\ out = NoOut /\ src.size < MaxSourceNodes /\ NextTarget(src) = 0
  /\ src' = pn_data_enter(pn_data_put_list(src))
  /\ UNCHANGED <<data, point, out, shadow>>

SourceExit ==
  /\ out = NoOut /\ pn_data_exit_ok(src)
  /\ src' = pn_data_exit(src)
  /\ UNCHANGED <<data, point, out, shadow>>

SourceRewind ==
  /\ out = NoOut
  /\ src' = pn_data_rewind(src)
  /\ UNCHANGED <<data, point, out, shadow>>

SourceNext ==
  /\ out = NoOut /\ pn_data_next_ok(src)
  /\ src' = pn_data_next(src)
  /\ UNCHANGED <<data, point, out, shadow>>

\* r: what the call returned
Sourced(r, op) ==
  /\ data' = r.d
  /\ src' = r.src
  /\ point' = pn_data_point(src)
  /\ out' = [op |-> op, err |-> r.err]

SourceCopy ==
  /\ out = NoOut
  /\ \E h \in PutFailEnvs : Sourced(pn_data_copy(data, src, h), "copy")
  /\ UNCHANGED shadow

SourceAppend ==
  /\ out = NoOut
  /\ \E h \in PutFailEnvs : Sourced(pn_data_append(data, src, h), "append")
  /\ UNCHANGED shadow

SourceAppendn ==
  /\ out = NoOut
  /\ \E h \in PutFailEnvs, limit \in 0..MaxSourceLimit :
       Sourced(pn_data_appendn(data, src, limit, h), "appendn")
  /\ UNCHANGED shadow

SourceNextStep ==
  \/ SourcePutNull \/ SourcePutString \/ SourcePutList \/ SourceExit
  \/ SourceRewind \/ SourceNext \/ SourceCopy \/ SourceAppend \/ SourceAppendn

SpecSource == SourceInit /\ [][SourceNextStep]_vars

\* C37: copy, append and appendn leave the cursor of the source where it
\* was before the call, whatever it was (the rewound cursor (0, 0)
\* included) and whether the call succeeds or fails.
C37_SourceCursorKept ==
  out.op \in {"copy", "append", "appendn"} => pn_data_point(src) = point

(***************************************************************************)
(* SpecEmpty: an array without elements is put into an empty tree, plain   *)
(* or described with its descriptor as the only child, encoded, and the    *)
(* bytes are decoded into an empty tree.                                   *)
(***************************************************************************)
\* the element types pn_data_put_array accepts: the value types of pn_type_t
EmptyTypes ==
  FixedKinds \cup BytesKinds \cup CompoundKinds \cup {"PN_NULL", PN_DESCRIPTOR}

\* the descriptors: a null, an unsigned int, an unsigned long, a symbol
EmptyDescriptors == {"PN_NULL", "PN_UINT", "PN_ULONG", "PN_SYMBOL"}

\* d with the descriptor put at the cursor
EmptyDescriptor(d, kind) ==
  CASE kind = "PN_NULL" -> pn_data_put_null(d)
    [] kind = "PN_UINT" -> pn_data_put_fixed(d, "PN_UINT", BE(70000, 4))
    [] kind = "PN_ULONG" -> pn_data_put_fixed(d, "PN_ULONG", BE(300, 8))
    [] OTHER -> pn_data_put_var(d, "PN_SYMBOL", pn_bytes(<<97, 98>>), Calm).d

EmptyInit ==
  /\ data = pn_data(InitialCapacity)
  /\ src = pn_data(0)
  /\ point = [parent |-> 0, current |-> 0]
  /\ out = NoOut
  /\ shadow = << >>

\* d: the tree built; descriptor: the descriptor as a value of its own
Emptied(d, descriptor, junk) ==
  /\ data' = pn_data_encode(d, Ample, junk).d
  /\ out' = [op |-> "empty", descriptor |-> descriptor, junk |-> junk,
             enc |-> pn_data_encode(d, Ample, junk).err,
             wire |-> Wire(d, junk),
             dec |-> pn_data_decode(pn_data(InitialCapacity), Wire(d, junk),
                                    Calm, junk).err,
             tree |-> pn_data_decode(pn_data(InitialCapacity), Wire(d, junk),
                                     Calm, junk).d]

EmptyPlain ==
  /\ out = NoOut
  /\ \E type \in EmptyTypes, junk \in {0, 7} :
       Emptied(pn_data_put_array(data, FALSE, type), << >>, junk)
  /\ UNCHANGED <<src, point, shadow>>

EmptyDescribed ==
  /\ out = NoOut
  /\ \E type \in EmptyTypes, kind \in EmptyDescriptors, junk \in {0, 7} :
       Emptied(pn_data_exit(EmptyDescriptor(
                 pn_data_enter(pn_data_put_array(data, TRUE, type)), kind)),
               Shape(EmptyDescriptor(data, kind)), junk)
  /\ UNCHANGED <<src, point, shadow>>

EmptyNext == EmptyPlain \/ EmptyDescribed

SpecEmpty == EmptyInit /\ [][EmptyNext]_vars

\* the bytes between the 0x00 marker of a described array without elements
\* and the last byte
EmptyMiddle(w) == SubSeq(w, 11, Len(w) - 1)

\* the bytes w hold one value and nothing else, and it is the value shape
EmptyHolds(w, shape, junk) ==
  /\ pn_data_decode(pn_data(InitialCapacity), w, Calm, junk).err = "OK"
  /\ pn_data_decode(pn_data(InitialCapacity), w, Calm, junk).n = Len(w)
  /\ Shape(pn_data_decode(pn_data(InitialCapacity), w, Calm, junk).d) = shape

\* C38: encode of an array that has no elements (a plain array with zero
\* children, or a described array whose only child is its descriptor) writes
\* the element type code exactly once, after the count 0 and, in a described
\* array, the 0x00 marker and the descriptor, and the bytes decode back to an
\* empty array with the same element type and described flag.
C38_EmptyArrayRoundTrip ==
  out.op = "empty" =>
    /\ out.enc = "OK"
    /\ Len(out.wire) >= 10
    /\ out.wire[1] = PNE_ARRAY32
    /\ SubSeq(out.wire, 2, 5) = BE(Len(out.wire) - 5, 4)
    /\ SubSeq(out.wire, 6, 9) = BE(0, 4)
    /\ out.wire[Len(out.wire)] = pn_type2code(data.nodes[1].type)
    /\ ~data.nodes[1].described => Len(out.wire) = 10
    /\ data.nodes[1].described =>
         /\ out.wire[10] = PNE_DESCRIPTOR
         /\ EmptyHolds(EmptyMiddle(out.wire), out.descriptor, out.junk)
    /\ out.dec = "OK"
    /\ Shape(out.tree) = Shape(data)

(***************************************************************************)
(* SpecCount: arrays are put at the top level of a tree, plain or          *)
(* described, and filled a child at a time with values of their element    *)
(* type; pn_data_get_array is asked of the current node, or the tree is    *)
(* encoded.  out holds what the last of these returned.                    *)
(***************************************************************************)
MaxCountNodes == 5

\* a size_t, as its eight bytes
SizeT(v) == BE(v, 8)

\* pn_data_get_array(data): a size_t
pn_data_get_array(d) ==
  IF d.current # 0 /\ d.nodes[d.current].atom.type = "PN_ARRAY"
  THEN IF d.nodes[d.current].described
       THEN SizeT(d.nodes[d.current].children - 1)
       ELSE SizeT(d.nodes[d.current].children)
  ELSE SizeT(0)

CountTypes == {"PN_NULL", "PN_ULONG"}

CountInit ==
  /\ data = pn_data(InitialCapacity)
  /\ src = pn_data(0)
  /\ point = [parent |-> 0, current |-> 0]
  /\ out = NoOut
  /\ shadow = << >>

CountPutArray ==
  /\ out = NoOut /\ data.size < MaxCountNodes /\ data.parent = 0
  /\ \E described \in BOOLEAN, type \in CountTypes :
       data' = pn_data_put_array(data, described, type)
  /\ UNCHANGED <<src, point, out, shadow>>

CountEnter ==
  /\ out = NoOut /\ data.parent = 0 /\ data.current # 0
  /\ data.nodes[data.current].down = 0
  /\ data' = pn_data_enter(data)
  /\ UNCHANGED <<src, point, out, shadow>>

\* a child of the element type of the array the cursor is in
CountPutChild ==
  /\ out = NoOut /\ data.size < MaxCountNodes /\ data.parent # 0
  /\ \E v \in {0, 300} :
       data' = IF data.nodes[data.parent].type = "PN_NULL"
               THEN pn_data_put_null(data)
               ELSE pn_data_put_fixed(data, "PN_ULONG", BE(v, 8))
  /\ UNCHANGED <<src, point, out, shadow>>

CountExit ==
  /\ out = NoOut /\ data.parent # 0
  /\ data' = pn_data_exit(data)
  /\ UNCHANGED <<src, point, out, shadow>>

CountGet ==
  /\ out = NoOut /\ data.current # 0
  /\ out' = [op |-> "get", count |-> pn_data_get_array(data)]
  /\ UNCHANGED <<data, src, point, shadow>>

CountEncode ==
  /\ out = NoOut /\ data.size > 0
  /\ \E junk \in {0, 7} :
       /\ data' = pn_data_encode(data, Ample, junk).d
       /\ out' = [op |-> "encode", err |-> pn_data_encode(data, Ample, junk).err,
                  wire |-> Wire(data, junk)]
  /\ UNCHANGED <<src, point, shadow>>

CountNext ==
  \/ CountPutArray \/ CountEnter \/ CountPutChild \/ CountExit
  \/ CountGet \/ CountEncode

SpecCount == CountInit /\ [][CountNext]_vars

\* the number of element children of array node n
ElementCount(d, n) == Cardinality(Elements(d, n))

\* the count field encode wrote for the compound n: the four bytes after
\* its size field
CountField(w, d, n) == SubSeq(w, d.nodes[n].start + 5, d.nodes[n].start + 8)

\* C39: for every array node, the element count pn_data_get_array reports
\* and the count field encode writes equal the number of element children,
\* the descriptor child of a described array excluded, and never wrap
\* around: a described array that has no children yet reports and encodes a
\* count of 0.
C39_ElementCount ==
  /\ out.op = "get" /\ data.nodes[data.current].atom.type = "PN_ARRAY" =>
       out.count = SizeT(ElementCount(data, data.current))
  /\ out.op = "encode" /\ out.err = "OK" =>
       \A n \in Reachable(data) :
         data.nodes[n].atom.type = "PN_ARRAY" =>
           CountField(out.wire, data, n) = BE(ElementCount(data, n), 4)

(***************************************************************************)
(* SpecRetry: pn_data_decode, one turn of its while (true) loop at a time. *)
(* shadow holds the input, asize, the number of calls of pn_decode_one,    *)
(* what the last call returned, and the number of atoms the stack of the   *)
(* caller has room for: atoms is a variable-length array of asize atoms on *)
(* the stack, and declaring one that does not fit is undefined.  out holds *)
(* what pn_data_decode returned.  The stacks are small: what matters is    *)
(* whether the atoms an input needs fit.                                   *)
(***************************************************************************)
\* the codes of the values that take no bytes after the code
RetryCodes == {PNE_NULL, PNE_TRUE, PNE_UINT0}

\* n copies of the bytes s
RECURSIVE Times(_, _)
Times(s, n) == IF n = 0 THEN << >> ELSE s \o Times(s, n - 1)

\* the encoding of a list of count values whose encodings are body
RetryList(count, body) ==
  <<PNE_LIST32>> \o BE(4 + Len(body), 4) \o BE(count, 4) \o body

\* a list of lists lists of arrays arrays of count values of a code that
\* takes no bytes
RetryWide(lists, arrays, count, code) ==
  RetryList(lists, Times(RetryList(arrays, Times(<<PNE_ARRAY8, 2, count, code>>,
                                                 arrays)),
                         lists))

RetryWidths == {1, 2, 4, 6}
RetryCounts == {0, 4, 8}

\* the inputs of any stack: the lists, a list that is cut short, a code that
\* is none, a string
RetryInputs ==
  { RetryWide(lists, arrays, count, code) :
      lists \in RetryWidths, arrays \in RetryWidths, count \in RetryCounts,
      code \in RetryCodes }
  \cup { <<PNE_LIST8, 3, 100, PNE_NULL, PNE_NULL>>, <<63>>, HelloWire }

\* an array of a million values that take no bytes, in ten bytes
RetryLong ==
  { <<PNE_ARRAY32>> \o BE(5, 4) \o BE(1000000, 4) \o <<code>> :
      code \in RetryCodes }

\* the atoms the stack has room for
RetryStacks == {96, 300, 4096}

\* the runs: an input and a stack
RetryRuns ==
  (RetryInputs \X RetryStacks) \cup (RetryLong \X {96})

RetryInit ==
  /\ data = pn_data(InitialCapacity)
  /\ src = pn_data(0)
  /\ point = [parent |-> 0, current |-> 0]
  /\ out = NoOut
  /\ \E run \in RetryRuns :
       shadow = [inp |-> run[1], asize |-> AtomsInitial, tries |-> 0,
                 last |-> "none", stack |-> run[2]]

\* pn_iatom_t atoms[asize] fits, and the call of pn_decode_one of this turn
RetryFits == out = NoOut /\ shadow.asize <= shadow.stack
RetryOne == pn_decode_one(shadow.inp, shadow.asize, 0)

\* if (!err) { err = pn_data_parse_atoms(...); return lbytes.size; }
RetryReturn ==
  /\ RetryFits /\ RetryOne.err = "OK"
  /\ data' = pn_data_parse_atoms(data, RetryOne.atoms, 0, 0 - 1, Calm).d
  /\ out' = [op |-> "returned", err |-> "OK", n |-> RetryOne.pos]
  /\ shadow' = [shadow EXCEPT !.tries = @ + 1, !.last = "OK"]
  /\ UNCHANGED <<src, point>>

\* else if (err == PN_OVERFLOW) asize *= 2;
RetryDouble ==
  /\ RetryFits /\ RetryOne.err = "PN_OVERFLOW"
  /\ shadow' = [shadow EXCEPT !.asize = 2 * @, !.tries = @ + 1,
                              !.last = "PN_OVERFLOW"]
  /\ UNCHANGED <<data, src, point, out>>

\* else return err;
RetryFail ==
  /\ RetryFits /\ RetryOne.err \notin {"OK", "PN_OVERFLOW"}
  /\ out' = [op |-> "returned", err |-> RetryOne.err, n |-> 0]
  /\ shadow' = [shadow EXCEPT !.tries = @ + 1, !.last = RetryOne.err]
  /\ UNCHANGED <<data, src, point>>

\* the array does not fit the stack: the process is killed at the guard
\* page, or the array lies over memory that is not the stack's
RetryOverrun ==
  /\ out = NoOut /\ shadow.asize > shadow.stack
  /\ \E end \in {"killed", "clobbered"} : out' = [op |-> end]
  /\ UNCHANGED <<data, src, point, shadow>>

RetryNext == RetryReturn \/ RetryDouble \/ RetryFail \/ RetryOverrun

SpecRetry == RetryInit /\ [][RetryNext]_vars

\* C40: decode terminates for every finite input: the scratch atom buffer is
\* doubled and the decode retried only when the codec reports that the atom
\* buffer overflowed, and after finitely many retries decode returns either
\* a byte count or an underflow / argument error.
C40_DecodeReturns ==
  /\ out.op \in {"none", "returned"}
  /\ out.op = "none" /\ shadow.tries > 0 => shadow.last = "PN_OVERFLOW"
  /\ out.op = "returned" =>
       out.err \in {"OK", "PN_UNDERFLOW", "PN_ARG_ERR"}
====
